---- MODULE Spec2Model ----
(***************************************************************************)
(* A model of the request-admission scheduler (TokenBucketPool), the       *)
(* retry driver (retryWithBackoff) and the streaming inserter              *)
(* (StreamInserter) of the multi-cursor AI generation extension.           *)
(*                                                                         *)
(* Each subsystem has its own specification (SpecPool, SpecRetry, SpecIns) *)
(* over the module's variables; a specification leaves the variables of    *)
(* the other subsystems at their initial values.                           *)
(***************************************************************************)
EXTENDS Integers, Sequences, FiniteSets, TLC

VARIABLES
  pool,      \* the fields of one TokenBucketPool and the futures of its tasks
  now,       \* Date.now(), in ms since the pool was constructed
  retry,     \* one call of retryWithBackoff
  jitter,    \* one call of exponentialJitter
  doc,       \* the document's text, and where each session's last insertion ends
  doc0,      \* the document's text when the sessions were constructed
  ins,       \* the StreamInserter sessions on the document
  trackers,  \* StreamInserter.anchorTrackers, for the document
  registry,  \* StreamInserter.anchorTrackers with its entry for the document, and
             \* the sessions constructed on the document over time
  editq,     \* StreamInserter.queues, for the document: the tasks not yet run
  chain,     \* StreamInserter.queues, for the document: the promises chained by
             \* enqueue and the edits they have made, one edit at a time
  http       \* one call of HttpClient.generate

poolVars == <<pool, now>>
retryVars == <<retry, jitter>>
insVars == <<doc, doc0, ins, trackers, registry, editq, chain>>
httpVars == <<http>>
vars == <<pool, now, retry, jitter, doc, doc0, ins, trackers, registry, editq, chain, http>>

Max(a, b) == IF a >= b THEN a ELSE b
Min(a, b) == IF a <= b THEN a ELSE b

(***************************************************************************)
(* Bounds of the model.                                                    *)
(***************************************************************************)
MaxTasks == 2       \* schedule() is called at most this many times
MaxConc == 2        \* the largest maxConcurrency input
MaxAdvances == 1    \* the clock runs for at most this many half minutes
MaxRetries == 2     \* maxRetries inputs are drawn from 0..MaxRetries
MaxDeltas == 2      \* appendDelta is called at most this many times in all
MaxChunks == 2      \* one generate call reads at most this many chunks that are not the last
MaxQueued == 3      \* enqueue is called at most this many times
MaxAttempt == 3     \* exponentialJitter is called with small attempts up to this
MaxBackoffMs == 4   \* exponentialJitter is called with baseMs and maxMs up to this

(***************************************************************************)
(* TokenBucketPool                                                         *)
(***************************************************************************)
TickMs == 200        \* period of the refill timer
MinuteMs == 60000    \* divisor of the refill rate
\* tokens are kept multiplied by MinuteMs, so that one refill of elapsedMs
\* adds maxPerMinute * elapsedMs and one admission costs TokenUnit.
TokenUnit == MinuteMs

\* a pool whose limits nobody changes is given one task more
BurstTasks == MaxTasks + 2
TaskIds == 1..MaxTasks
BurstIds == 1..BurstTasks
ConcInputs == {0, MaxConc}
RpmInputs == {0, 2}
TimeSteps == {MinuteMs \div 2}
RetryAfterInputs == {-1, 0, 100, 300}     \* -1: the hint has no retryAfterMs
LimitHintInputs == {-1, 1, 2} \* -1: the hint has no limitPerMinuteHint

\* A task: st is its place in the pool, fut the state of the promise that
\* schedule returned, ctl whether its controller was aborted, sig the state
\* of its external signal ("clear": not fired, which covers a call without a
\* signal; "aborted": fired; "gone": the task left the pool with its signal
\* not fired, and the signal is followed no further).
NoTask == [st |-> "none", fut |-> "pending", ctl |-> FALSE, sig |-> "gone"]

\* new TokenBucketPool(opts)
NewPool(optConc, optRpm, optProbe) ==
  [ maxConcurrency |-> Max(1, optConc),
    maxPerMinute   |-> Max(1, optRpm),
    dynamicProbe   |-> optProbe,
    capacity       |-> Max(1, optRpm),
    tokens         |-> Max(1, optRpm) * TokenUnit,
    running        |-> 0,
    queue          |-> << >>,
    refillTimer    |-> TRUE,
    lastRefillTs   |-> 0,
    cooldownUntil  |-> 0,
    nextId         |-> 1,
    task           |-> [t \in TaskIds |-> NoTask] ]

CanStart_NoConcurrencyCheck(p, t) ==
  /\ ~(t < p.cooldownUntil)
  /\ ~(p.tokens < TokenUnit)
  /\ Len(p.queue) > 0

CanStart_NoCooldown(p, t) ==
  /\ ~(p.running >= p.maxConcurrency)
  /\ ~(p.tokens < TokenUnit)
  /\ Len(p.queue) > 0

CanStart(p, t) ==
  /\ ~(p.running >= p.maxConcurrency)
  /\ ~(t < p.cooldownUntil)
  /\ ~(p.tokens < TokenUnit)
  /\ Len(p.queue) > 0

\* One iteration of the loop of maybeStart: shift the queue, take a token,
\* count the task as running. The microtask that then calls t.fn(localSignal)
\* is unconditional, so a task is "running" from its admission on.
StartOne(p) ==
  [p EXCEPT !.queue = Tail(p.queue),
            !.tokens = Max(0, p.tokens - TokenUnit),
            !.running = p.running + 1,
            !.task[Head(p.queue)].st = "running"]

RECURSIVE MaybeStart(_, _)
MaybeStart(p, t) == IF CanStart(p, t) THEN MaybeStart(StartOne(p), t) ELSE p

UpdateLimitsOf_NoStart(p, conc, rpm, t) ==
  LET newRpm == Max(1, rpm)
  IN [p EXCEPT !.maxConcurrency = Max(1, conc),
               !.maxPerMinute = newRpm,
               !.capacity = newRpm,
               !.tokens = Min(p.tokens, newRpm * TokenUnit)]

UpdateLimitsOf_FillsBucket(p, conc, rpm, t) ==
  LET newRpm == Max(1, rpm)
      p1 == [p EXCEPT !.maxConcurrency = Max(1, conc),
                      !.maxPerMinute = newRpm,
                      !.capacity = newRpm,
                      !.tokens = newRpm * TokenUnit]
  IN MaybeStart(p1, t)

UpdateLimitsOf_NoClamp(p, conc, rpm, t) ==
  LET newRpm == Max(1, rpm)
      p1 == [p EXCEPT !.maxConcurrency = Max(1, conc),
                      !.maxPerMinute = newRpm,
                      !.capacity = newRpm]
  IN MaybeStart(p1, t)

\* updateLimits(lim) at time t, maybeStart included
UpdateLimitsOf(p, conc, rpm, t) ==
  LET newRpm == Max(1, rpm)
      p1 == [p EXCEPT !.maxConcurrency = Max(1, conc),
                      !.maxPerMinute = newRpm,
                      !.capacity = newRpm,
                      !.tokens = Min(p.tokens, newRpm * TokenUnit)]
  IN MaybeStart(p1, t)

RemoveAt_FillsWithLast(q, i) ==
  [j \in 1..(Len(q) - 1) |-> IF j = i THEN q[Len(q)] ELSE q[j]]

\* queue.splice(idx, 1)
RemoveAt(q, i) == SubSeq(q, 1, i - 1) \o SubSeq(q, i + 1, Len(q))
IndexOf(q, x) == IF \E i \in 1..Len(q) : q[i] = x
                 THEN CHOOSE i \in 1..Len(q) : q[i] = x ELSE 0
InQueue(p, id) == \E i \in 1..Len(p.queue) : p.queue[i] = id

\* schedule(fn, signal): sigKind is "clear" (no signal, or one not fired) or
\* "aborted"
ScheduleUpTo(n, sigKind) ==
  /\ pool.nextId <= n
  /\ LET id == pool.nextId
         p0 == [pool EXCEPT !.nextId = id + 1]
     IN IF sigKind = "aborted"
        THEN pool' = [p0 EXCEPT !.task[id] =
                        [st |-> "refused", fut |-> "canceled", ctl |-> FALSE, sig |-> "aborted"]]
        ELSE pool' = MaybeStart(
                       [p0 EXCEPT !.queue = Append(p0.queue, id),
                                  !.task[id] = [st |-> "queued", fut |-> "pending",
                                                ctl |-> FALSE, sig |-> sigKind]],
                       now)
  /\ UNCHANGED <<now, retryVars, insVars, httpVars>>

Schedule(sigKind) == ScheduleUpTo(MaxTasks, sigKind)

OnAbort_KeepsQueued(id) ==
  /\ pool.task[id].sig = "clear"
  /\ pool.task[id].st \in {"queued", "running"}
  /\ pool' = [pool EXCEPT !.task[id].sig = "aborted", !.task[id].ctl = TRUE]
  /\ UNCHANGED <<now, retryVars, insVars, httpVars>>

\* the onAbort listener of schedule: the task's external signal fires
OnAbort(id) ==
  /\ pool.task[id].sig = "clear"
  /\ pool.task[id].st \in {"queued", "running"}
  /\ LET p1 == [pool EXCEPT !.task[id].sig = "aborted", !.task[id].ctl = TRUE]
         idx == IndexOf(pool.queue, id)
     IN pool' = IF idx >= 1
                THEN [p1 EXCEPT !.queue = RemoveAt(pool.queue, idx),
                                !.task[id].st = "dropped",
                                !.task[id].fut = "canceled"]
                ELSE p1
  /\ UNCHANGED <<now, retryVars, insVars, httpVars>>

Settle_NoRestart(id, outcome) ==
  /\ pool.task[id].st = "running"
  /\ pool' = [pool EXCEPT !.running = pool.running - 1,
                          !.task[id] = [st |-> "settled", fut |-> outcome,
                                        ctl |-> FALSE, sig |-> "gone"]]
  /\ UNCHANGED <<now, retryVars, insVars, httpVars>>

\* the completion callbacks of maybeStart: the action's promise settles
Settle(id, outcome) ==
  /\ pool.task[id].st = "running"
  /\ pool' = MaybeStart(
               [pool EXCEPT !.running = pool.running - 1,
                            !.task[id] = [st |-> "settled", fut |-> outcome,
                                          ctl |-> FALSE, sig |-> "gone"]],
               now)
  /\ UNCHANGED <<now, retryVars, insVars, httpVars>>

CancelAll_KeepsQueue ==
  /\ pool' = [pool EXCEPT
                !.task = [t \in DOMAIN pool.task |->
                            IF InQueue(pool, t)
                            THEN [pool.task[t] EXCEPT !.ctl = TRUE, !.fut = "canceled", !.sig = "gone"]
                            ELSE pool.task[t]]]
  /\ UNCHANGED <<now, retryVars, insVars, httpVars>>

\* cancelAll()
CancelAll ==
  /\ pool' = [pool EXCEPT
                !.queue = << >>,
                !.task = [t \in DOMAIN pool.task |->
                            IF InQueue(pool, t)
                            THEN [st |-> "dropped", fut |-> "canceled",
                                  ctl |-> TRUE, sig |-> "gone"]
                            ELSE pool.task[t]]]
  /\ UNCHANGED <<now, retryVars, insVars, httpVars>>

\* dispose(): the controllers of the queued tasks are aborted, their
\* futures are not rejected
Dispose ==
  /\ pool' = [pool EXCEPT
                !.refillTimer = FALSE,
                !.queue = << >>,
                !.task = [t \in DOMAIN pool.task |->
                            IF InQueue(pool, t)
                            THEN [st |-> "dropped", fut |-> "pending",
                                  ctl |-> TRUE, sig |-> "gone"]
                            ELSE pool.task[t]]]
  /\ UNCHANGED <<now, retryVars, insVars, httpVars>>

\* updateLimits(lim)
UpdateLimits(conc, rpm) ==
  /\ pool' = UpdateLimitsOf(pool, conc, rpm, now)
  /\ UNCHANGED <<now, retryVars, insVars, httpVars>>

ApplyServerHintOf_Overwrite(p, retryAfterMs, limitHint, t) ==
  LET until == t + retryAfterMs
      p1 == IF retryAfterMs > 0
            THEN [p EXCEPT !.cooldownUntil = until] ELSE p
      adjusted == Max(1, limitHint)
  IN IF p.dynamicProbe /\ limitHint > 0 /\ adjusted # p1.maxPerMinute
     THEN UpdateLimitsOf(p1, p1.maxConcurrency, adjusted, t) ELSE p1

ApplyServerHintOf_IgnoresProbe(p, retryAfterMs, limitHint, t) ==
  LET until == t + retryAfterMs
      p1 == IF retryAfterMs > 0 /\ until > p.cooldownUntil
            THEN [p EXCEPT !.cooldownUntil = until] ELSE p
      adjusted == Max(1, limitHint)
  IN IF limitHint > 0 /\ adjusted # p1.maxPerMinute
     THEN UpdateLimitsOf(p1, p1.maxConcurrency, adjusted, t)
     ELSE p1

\* applyServerHint(hint) at time t
ApplyServerHintOf(p, retryAfterMs, limitHint, t) ==
  LET until == t + retryAfterMs
      p1 == IF retryAfterMs > 0 /\ until > p.cooldownUntil
            THEN [p EXCEPT !.cooldownUntil = until] ELSE p
      adjusted == Max(1, limitHint)
  IN IF p.dynamicProbe /\ limitHint > 0 /\ adjusted # p1.maxPerMinute
     THEN UpdateLimitsOf(p1, p1.maxConcurrency, adjusted, t)
     ELSE p1

ApplyServerHint(retryAfterMs, limitHint) ==
  /\ pool' = ApplyServerHintOf(pool, retryAfterMs, limitHint, now)
  /\ UNCHANGED <<now, retryVars, insVars, httpVars>>

Refill_NoStart ==
  /\ pool.refillTimer
  /\ now - pool.lastRefillTs >= TickMs
  /\ LET elapsedMs == now - pool.lastRefillTs
         add == pool.maxPerMinute * elapsedMs
     IN pool' = [pool EXCEPT !.lastRefillTs = now,
                             !.tokens = Min(pool.capacity * TokenUnit, pool.tokens + add)]
  /\ UNCHANGED <<now, retryVars, insVars, httpVars>>

\* refill(), the callback of the 200 ms interval timer
Refill ==
  /\ pool.refillTimer
  /\ now - pool.lastRefillTs >= TickMs
  /\ LET elapsedMs == now - pool.lastRefillTs
         add == pool.maxPerMinute * elapsedMs
     IN pool' = MaybeStart(
                  [pool EXCEPT !.lastRefillTs = now,
                               !.tokens = Min(pool.capacity * TokenUnit, pool.tokens + add)],
                  now)
  /\ UNCHANGED <<now, retryVars, insVars, httpVars>>

\* time passes
AdvanceTime(d) ==
  /\ now + d <= MaxAdvances * (MinuteMs \div 2)
  /\ now' = now + d
  /\ UNCHANGED <<pool, retryVars, insVars, httpVars>>

\* Time passes without bound: Date.now() grows by d. The pool reads the
\* clock only in differences (now - lastRefillTs, now < cooldownUntil,
\* now + retryAfterMs), so the clock is kept at `now` and the two timestamps
\* of the pool are moved back by d instead; a cooldown that has run out
\* stays at `now`, which is as far from blocking as any earlier instant.
\* The interval timer fires every TickMs, so time passes by d only after
\* the tick for the time passed before.
TimePasses(d) ==
  /\ pool.lastRefillTs = now
  /\ pool' = [pool EXCEPT !.lastRefillTs = pool.lastRefillTs - d,
                          !.cooldownUntil = Max(now, pool.cooldownUntil - d)]
  /\ UNCHANGED <<now, retryVars, insVars, httpVars>>

(***************************************************************************)
(* StreamInserter                                                          *)
(*                                                                         *)
(* The document is a sequence of characters: LF is a line break, OrigChar  *)
(* a character of the original text, CharOf(s) a character that session s  *)
(* inserts. Positions are [line, character] as in vscode.Position.         *)
(***************************************************************************)
Sessions == {1, 2}
LF == 0
OrigChar == 1
CharOf(s) == s + 1
SepChar == 4

Pos(l, c) == [line |-> l, character |-> c]
Rng(a, b) == [start |-> a, end |-> b]
PosLE(a, b) == a.line < b.line \/ (a.line = b.line /\ a.character <= b.character)

\* the number of line breaks among the first n characters of text t
NumLF(t, n) == Cardinality({i \in 1..n : t[i] = LF})
LineCount(t) == NumLF(t, Len(t)) + 1
\* the offset at which line l starts
LineStart(t, l) ==
  IF l = 0 THEN 0 ELSE CHOOSE i \in 1..Len(t) : t[i] = LF /\ NumLF(t, i) = l
LineLen(t, l) ==
  (IF l = LineCount(t) - 1 THEN Len(t) ELSE LineStart(t, l + 1) - 1) - LineStart(t, l)

\* TextDocument.offsetAt, which validates the position against the text
OffsetAt(t, pos) ==
  IF pos.line >= LineCount(t) THEN Len(t)
  ELSE LineStart(t, pos.line) + Min(pos.character, LineLen(t, pos.line))
\* TextDocument.positionAt
PositionAt(t, off) == Pos(NumLF(t, off), off - LineStart(t, NumLF(t, off)))

CR == 5

RECURSIVE Split_EveryBreakChar(_)
Split_EveryBreakChar(t) ==
  IF t = << >> THEN << << >> >>
  ELSE IF t[1] \in {CR, LF} THEN << << >> >> \o Split_EveryBreakChar(Tail(t))
  ELSE LET r == Split_EveryBreakChar(Tail(t))
       IN << <<t[1]>> \o r[1] >> \o Tail(r)

\* text.split(/\r\n|\r|\n/): the pieces between the separators, where the
\* regular expression takes CR LF as one separator before it tries CR or LF
RECURSIVE Split(_)
Split(t) ==
  IF t = << >> THEN << << >> >>
  ELSE IF t[1] = CR /\ Len(t) >= 2 /\ t[2] = LF
  THEN << << >> >> \o Split(SubSeq(t, 3, Len(t)))
  ELSE IF t[1] \in {CR, LF} THEN << << >> >> \o Split(Tail(t))
  ELSE LET r == Split(Tail(t))
       IN << <<t[1]>> \o r[1] >> \o Tail(r)

\* lines.length - 1, and lines[lines.length - 1].length
Breaks(text) == Len(Split(text)) - 1
LastPieceLen(text) == Len(Split(text)[Len(Split(text))])

\* eb.insert(pos, text) by session self; the mark of a session is the offset
\* where the text it inserted last ends (-1: none)
EditInsert(d, pos, text, self) ==
  LET off == OffsetAt(d.text, pos)
      n == Len(text)
  IN [ text |-> SubSeq(d.text, 1, off) \o text \o SubSeq(d.text, off + 1, Len(d.text)),
       mark |-> [x \in Sessions |->
                   IF x = self THEN off + n
                   ELSE IF d.mark[x] > off THEN d.mark[x] + n ELSE d.mark[x]] ]

\* eb.delete(range); a session whose last character is deleted has no mark
EditDelete(d, range) ==
  LET a == OffsetAt(d.text, range.start)
      b == Max(a, OffsetAt(d.text, range.end))
  IN [ text |-> SubSeq(d.text, 1, a) \o SubSeq(d.text, b + 1, Len(d.text)),
       mark |-> [x \in Sessions |->
                   IF d.mark[x] > b THEN d.mark[x] - (b - a)
                   ELSE IF d.mark[x] > a THEN -1 ELSE d.mark[x]] ]

\* new StreamInserter(spec); origText is the caller's doc.getText(range)
NewInserter(text, range, mode, pre, post) ==
  LET anchor == IF mode = "replace" THEN range.start ELSE range.end
  IN [ mode |-> mode, preSeparator |-> pre, postSeparator |-> post,
       originalRange |-> range,
       range0 |-> range,   \* spec.range, as the caller passed it
       anchor |-> anchor, initialAnchor |-> anchor,
       originalStartLine |-> anchor.line, originalStartChar |-> anchor.character,
       inserted |-> FALSE, disposed |-> FALSE, totalInsertedLength |-> 0,
       origText |-> SubSeq(text, OffsetAt(text, range.start) + 1, OffsetAt(text, range.end)),
       pc |-> "new",       \* where the session's caller is
       nDeltas |-> 0,      \* how many deltas the caller has passed
       written |-> << >>,  \* all the text the session has inserted
       asked |-> << >>,    \* the mutations the caller has asked for, in order
       applied |-> << >> ] \* the mutations that have run, in order

IsAfter_LineOnly(o, src) == o.originalStartLine > src.originalStartLine

\* isAfter: o's original start is after src's
IsAfter(o, src) ==
  \/ o.originalStartLine > src.originalStartLine
  \/ (o.originalStartLine = src.originalStartLine /\ o.originalStartChar > src.originalStartChar)

Translate(pos, lines) == Pos(pos.line + lines, pos.character)

\* other.adjustAnchorOffset(src.originalStartLine, src.originalStartChar, insertedLines)
AdjustAnchorOffset(o, src, insertedLines) ==
  IF o.disposed THEN o
  ELSE IF IsAfter(o, src)
  THEN [o EXCEPT !.anchor = Translate(o.anchor, insertedLines),
                 !.initialAnchor = Translate(o.initialAnchor, insertedLines),
                 !.originalRange = Rng(Translate(o.originalRange.start, insertedLines),
                                       Translate(o.originalRange.end, insertedLines))]
  ELSE o

\* notifyOtherInserters(insertedLines) of session self
NotifyOtherInserters(ss, tr, self, insertedLines) ==
  [x \in Sessions |->
     IF x # self /\ x \in tr /\ ~ss[x].disposed
     THEN AdjustAnchorOffset(ss[x], ss[self], insertedLines) ELSE ss[x]]

\* the body of the loop of notifyOtherInsertersForDelete for one other
\* session. Position.translate throws when the line would be negative: then
\* anchor and initialAnchor are already set and originalRange is not.
ShiftForDelete(o, src, deletedLines) ==
  IF IsAfter(o, src)
  THEN LET shift == 0 - deletedLines
           o1 == [o EXCEPT !.anchor = Pos(Max(0, o.anchor.line + shift),
                                          o.anchor.character),
                           !.initialAnchor = Pos(Max(0, o.initialAnchor.line + shift),
                                                 o.initialAnchor.character)]
       IN IF o.originalRange.start.line + shift < 0
          THEN [s |-> o1, threw |-> TRUE]
          ELSE [s |-> [o1 EXCEPT !.originalRange =
                                    Rng(Translate(o.originalRange.start, shift),
                                        Translate(o.originalRange.end, shift))],
                threw |-> FALSE]
  ELSE [s |-> o, threw |-> FALSE]

\* notifyOtherInsertersForDelete(deletedLines) of session self: the sessions
\* are visited in the order of their registration, up to the first throw
RECURSIVE NotifyForDeleteFrom(_, _, _, _, _)
NotifyForDeleteFrom(x, ss, tr, self, deletedLines) ==
  IF x \notin Sessions THEN [ss |-> ss, threw |-> FALSE]
  ELSE IF x # self /\ x \in tr /\ ~ss[x].disposed
  THEN LET r == ShiftForDelete(ss[x], ss[self], deletedLines)
           ss1 == [ss EXCEPT ![x] = r.s]
       IN IF r.threw THEN [ss |-> ss1, threw |-> TRUE]
          ELSE NotifyForDeleteFrom(x + 1, ss1, tr, self, deletedLines)
  ELSE NotifyForDeleteFrom(x + 1, ss, tr, self, deletedLines)

NotifyOtherInsertersForDelete(ss, tr, self, deletedLines) ==
  NotifyForDeleteFrom(1, ss, tr, self, deletedLines)

\* updateAnchor(text) of session self, notifyOtherInserters included
UpdateAnchor(ss, tr, self, text) ==
  LET a == ss[self].anchor
      insertedLines == Breaks(text)
      ss1 == [ss EXCEPT ![self].anchor =
                 IF insertedLines = 0
                 THEN Pos(a.line, a.character + Len(text))
                 ELSE Pos(a.line + insertedLines, LastPieceLen(text))]
  IN IF insertedLines > 0 THEN NotifyOtherInserters(ss1, tr, self, insertedLines) ELSE ss1

\* an insertion of text at the anchor of session self, followed by
\* updateAnchor; counted says whether totalInsertedLength and inserted are set
InsertAtAnchor(st, self, text, counted) ==
  LET d1 == EditInsert(st.d, st.ss[self].anchor, text, self)
      ss1 == UpdateAnchor(st.ss, st.tr, self, text)
      ss2 == [ss1 EXCEPT ![self].written = ss1[self].written \o text]
  IN [st EXCEPT !.d = d1,
                !.ss = IF counted
                       THEN [ss2 EXCEPT ![self].totalInsertedLength =
                                           ss2[self].totalInsertedLength + Len(text),
                                        ![self].inserted = TRUE]
                       ELSE ss2]

\* the task that start() enqueues
StartTask(st, self) ==
  LET me == st.ss[self]
      rangeToDelete == me.originalRange
      deletedLines == rangeToDelete.end.line - rangeToDelete.start.line
      st1 == IF me.mode = "replace"
             THEN [st EXCEPT !.d = EditDelete(st.d, rangeToDelete)] ELSE st
      n == IF me.mode = "replace" /\ deletedLines > 0
           THEN NotifyOtherInsertersForDelete(st1.ss, st1.tr, self, deletedLines)
           ELSE [ss |-> st1.ss, threw |-> FALSE]
      st2 == [st1 EXCEPT !.ss = n.ss]
  IN IF n.threw THEN st2
     ELSE IF me.preSeparator # << >>
     THEN InsertAtAnchor(st2, self, me.preSeparator, TRUE)
     ELSE st2

\* the task that appendDelta(text) enqueues
AppendTask(st, self, text) == InsertAtAnchor(st, self, text, TRUE)

\* the task that finish() enqueues
FinishTask(st, self) ==
  IF st.ss[self].postSeparator # << >> /\ st.ss[self].inserted
  THEN InsertAtAnchor(st, self, st.ss[self].postSeparator, FALSE)
  ELSE st

\* the task that restoreOriginal(originalText) enqueues: one edit that
\* deletes new Range(initialAnchor, anchor) when something was inserted and
\* inserts originalText at initialAnchor
RestoreTask(st, self, originalText) ==
  LET me == st.ss[self]
      lo == IF PosLE(me.initialAnchor, me.anchor) THEN me.initialAnchor ELSE me.anchor
      hi == IF PosLE(me.initialAnchor, me.anchor) THEN me.anchor ELSE me.initialAnchor
      d1 == IF me.totalInsertedLength > 0
            THEN EditDelete(st.d, Rng(lo, hi)) ELSE st.d
      off == IF me.totalInsertedLength > 0
             THEN OffsetAt(st.d.text, lo)
             ELSE OffsetAt(st.d.text, me.initialAnchor)
      d2 == EditInsert(d1, PositionAt(d1.text, off), originalText, self)
  IN [st EXCEPT !.d = [d2 EXCEPT !.mark[self] = -1]]

RunTask(st, task) ==
  CASE task.op = "start"   -> StartTask(st, task.s)
    [] task.op = "append"  -> AppendTask(st, task.s, task.text)
    [] task.op = "finish"  -> FinishTask(st, task.s)
    [] task.op = "restore" -> RestoreTask(st, task.s, task.text)

\* where the caller of a session is once the task has run: start, finish and
\* restoreOriginal are awaited, appendDelta is called by onDelta, whose promise
\* nobody awaits
DonePc(op, pc) ==
  CASE op = "start" -> "started"
    [] op = "append" -> pc
    [] op = "finish" -> "finished"
    [] op = "restore" -> "restored"

Op(op, text) == [op |-> op, text |-> text]

Enqueue_Front(task) == editq' = <<task>> \o editq

\* enqueue(task): the task is chained after the tasks enqueued before it
Enqueue(task) == editq' = Append(editq, task)

\* the caller of session s calls start() and awaits it
CallStart(s) ==
  /\ ins[s].pc = "new" /\ ~ins[s].disposed
  /\ Enqueue([op |-> "start", s |-> s, text |-> << >>])
  /\ ins' = [ins EXCEPT ![s].pc = "starting",
                        ![s].asked = Append(ins[s].asked, Op("start", << >>))]
  /\ UNCHANGED <<poolVars, retryVars, httpVars, doc, doc0, trackers, chain, registry>>

\* the number of appendDelta calls so far
DeltasSoFar == ins[1].nDeltas + ins[2].nDeltas

\* onDelta of session s calls appendDelta(text) while generate runs
CallAppendDelta(s, text) ==
  /\ ins[s].pc = "started" /\ ~ins[s].disposed
  /\ DeltasSoFar < MaxDeltas
  /\ text # << >>
  /\ Enqueue([op |-> "append", s |-> s, text |-> text])
  /\ ins' = [ins EXCEPT ![s].nDeltas = ins[s].nDeltas + 1,
                        ![s].asked = Append(ins[s].asked, Op("append", text))]
  /\ UNCHANGED <<poolVars, retryVars, httpVars, doc, doc0, trackers, chain, registry>>

\* the caller of session s calls finish() and awaits it
CallFinish(s) ==
  /\ ins[s].pc = "started" /\ ~ins[s].disposed
  /\ Enqueue([op |-> "finish", s |-> s, text |-> << >>])
  /\ ins' = [ins EXCEPT ![s].pc = "finishing",
                        ![s].asked = Append(ins[s].asked, Op("finish", << >>))]
  /\ UNCHANGED <<poolVars, retryVars, httpVars, doc, doc0, trackers, chain, registry>>

\* the caller of session s calls restoreOriginal(originalText) and awaits it
CallRestoreOriginal(s) ==
  /\ ins[s].pc \in {"started", "finished"}
  /\ Enqueue([op |-> "restore", s |-> s, text |-> ins[s].origText])
  /\ ins' = [ins EXCEPT ![s].pc = "restoring",
                        ![s].asked = Append(ins[s].asked, Op("restore", ins[s].origText))]
  /\ UNCHANGED <<poolVars, retryVars, httpVars, doc, doc0, trackers, chain, registry>>

\* the caller of session s calls dispose()
DisposeSession(s) ==
  /\ ins[s].pc = "finished" /\ ~ins[s].disposed
  /\ ins' = [ins EXCEPT ![s].disposed = TRUE]
  /\ trackers' = trackers \ {s}
  /\ UNCHANGED <<poolVars, retryVars, httpVars, doc, doc0, editq, chain, registry>>

\* the document's queue runs its next task, and the caller awaiting it goes on
RunNext ==
  /\ editq # << >>
  /\ LET task == Head(editq)
         st == RunTask([d |-> doc, ss |-> ins, tr |-> trackers], task)
     IN /\ doc' = st.d
        /\ ins' = [st.ss EXCEPT ![task.s].pc = DonePc(task.op, st.ss[task.s].pc),
                                ![task.s].applied =
                                   Append(st.ss[task.s].applied, Op(task.op, task.text))]
  /\ editq' = Tail(editq)
  /\ UNCHANGED <<poolVars, retryVars, httpVars, doc0, trackers, chain, registry>>

\* The selections of the two sessions in the three-line text "ab", "cd", "ef":
\* session 1 lies before session 2 and they do not overlap.
Text0 == <<OrigChar, OrigChar, LF, OrigChar, OrigChar, LF, OrigChar, OrigChar>>
RangeInputs ==
  { <<Rng(Pos(0, 0), Pos(0, 1)), Rng(Pos(0, 1), Pos(0, 2))>>,   \* one line, touching
    <<Rng(Pos(0, 0), Pos(0, 2)), Rng(Pos(1, 0), Pos(1, 2))>>,   \* two whole lines
    <<Rng(Pos(0, 1), Pos(1, 1)), Rng(Pos(1, 1), Pos(2, 1))>>,   \* 2 starts on 1's last line
    <<Rng(Pos(0, 0), Pos(1, 0)), Rng(Pos(2, 0), Pos(2, 2))>> }  \* 1 spans a line break
\* the (preSeparator, postSeparator) settings
SeparatorInputs == { << << >>, << >> >>, << <<LF>>, << >> >>, << <<SepChar>>, <<LF>> >> }
DeltaInputs(s) == { <<CharOf(s)>>, <<LF, CharOf(s)>> }

(***************************************************************************)
(* The streaming flow of the generate command for one selection            *)
(*                                                                         *)
(* Each selection's task constructs its session and calls start() before   *)
(* any task of the document's queue runs. When start() has run it calls    *)
(* schedule() with a function that streams the answer and passes every     *)
(* delta to appendDelta; when that resolves it awaits finish(), calls       *)
(* dispose(), and calls restoreOriginal when the answer was empty. An      *)
(* error of schedule() goes to the catch block, which marks the progress   *)
(* and does nothing to the session or the document. The fields of a        *)
(* selection's task are those of its session and                           *)
(*   gen      where its schedule() call is: "none", "queued" in the pool,  *)
(*            "streaming", "resolved" or "rejected";                       *)
(*   aborted  whether the signal of its taskController has fired;          *)
(*   atAbort  the number of its deltas delivered when the signal fired     *)
(*            while it was streaming (-1: it did not);                     *)
(*   why      what rejected it: "queued" (canceled before it was           *)
(*            admitted), "stream" (the stream saw the signal) or "failed". *)
(***************************************************************************)
NewSelectionTask(text, range, mode, pre, post) ==
  NewInserter(text, range, mode, pre, post)
    @@ [gen |-> "none", aborted |-> FALSE, atAbort |-> -1, why |-> "none"]

Caught_StreamGoesOn(t, why) == [t EXCEPT !.why = why]

\* schedule() rejects and the selection's task is in its catch block
Caught(t, why) == [t EXCEPT !.gen = "rejected", !.pc = "caught", !.why = why]

\* start() has run: the task calls schedule(fn, taskController.signal), which
\* rejects at once when the signal has fired
CallSchedule(s) ==
  /\ ins[s].pc = "started" /\ ins[s].gen = "none"
  /\ ins' = [ins EXCEPT ![s] = IF ins[s].aborted THEN Caught(ins[s], "queued")
                                ELSE [ins[s] EXCEPT !.gen = "queued"]]
  /\ UNCHANGED <<poolVars, retryVars, httpVars, doc, doc0, trackers, editq, chain, registry>>

\* the pool admits the task: fn runs and the answer streams
Admit(s) ==
  /\ ins[s].gen = "queued"
  /\ ins' = [ins EXCEPT ![s].gen = "streaming"]
  /\ UNCHANGED <<poolVars, retryVars, httpVars, doc, doc0, trackers, editq, chain, registry>>

\* consumeSSE calls onDelta only from its read loop
CanDeliver(t) == t.gen = "streaming"

\* a data line of the stream: onDelta calls appendDelta(delta)
OnDelta(s, text) ==
  /\ CanDeliver(ins[s])
  /\ CallAppendDelta(s, text)

\* the cancel poll of the command: rateLimiter.cancelAll() and
\* globalAbort.abort(). Every taskController aborts; a task still queued in
\* the pool is rejected with 'aborted', a running one only has its signal set
UserCancels ==
  /\ \E s \in Sessions : ~ins[s].aborted
  /\ ins' = [s \in Sessions |->
               LET t == [ins[s] EXCEPT !.aborted = TRUE]
               IN IF t.gen = "queued" THEN Caught(t, "queued")
                  ELSE IF t.gen = "streaming" THEN [t EXCEPT !.atAbort = t.nDeltas]
                  ELSE t]
  /\ UNCHANGED <<poolVars, retryVars, httpVars, doc, doc0, trackers, editq, chain, registry>>

\* consumeSSE finds signal.aborted at the top of its read loop and throws;
\* generate rethrows and schedule() rejects
ObserveAbort(s) ==
  /\ ins[s].gen = "streaming" /\ ins[s].aborted
  /\ ins' = [ins EXCEPT ![s] = Caught(ins[s], "stream")]
  /\ UNCHANGED <<poolVars, retryVars, httpVars, doc, doc0, trackers, editq, chain, registry>>

\* generate rejects with an error that is not a cancellation
GenerationFails(s) ==
  /\ ins[s].gen = "streaming"
  /\ ins' = [ins EXCEPT ![s] = Caught(ins[s], "failed")]
  /\ UNCHANGED <<poolVars, retryVars, httpVars, doc, doc0, trackers, editq, chain, registry>>

\* generate resolves and the task awaits finish()
GenerationResolves(s) ==
  /\ ins[s].gen = "streaming" /\ ins[s].pc = "started" /\ ~ins[s].disposed
  /\ Enqueue([op |-> "finish", s |-> s, text |-> << >>])
  /\ ins' = [ins EXCEPT ![s].gen = "resolved",
                        ![s].pc = "finishing",
                        ![s].asked = Append(ins[s].asked, Op("finish", << >>))]
  /\ UNCHANGED <<poolVars, retryVars, httpVars, doc, doc0, trackers, chain, registry>>

\* !generatedText: the answer had no delta
EmptyOutput(t) == t.nDeltas = 0

\* after dispose(), the task of an empty answer awaits restoreOriginal
RestoreEmpty(s) ==
  /\ ins[s].disposed /\ ins[s].pc = "finished"
  /\ EmptyOutput(ins[s])
  /\ CallRestoreOriginal(s)

(***************************************************************************)
(* StreamInserter.anchorTrackers over the life of the sessions             *)
(*                                                                         *)
(* registry.has says whether the map has an entry for the document,        *)
(* registry.set is the Set of that entry, and registry.sess tells of each  *)
(* session whether it was constructed, its field disposed, and how often   *)
(* dispose() was called on it.                                             *)
(***************************************************************************)
MaxInserters == 4
InserterIds == 1..MaxInserters
\* dispose() is called on a session once, or once more
DisposeCalls == 2

NoRegistry ==
  [has |-> FALSE, set |-> {},
   sess |-> [i \in InserterIds |-> [made |-> FALSE, disposed |-> FALSE, disposals |-> 0]]]

\* the end of the constructor: the session registers itself
Construct(i) ==
  /\ ~registry.sess[i].made
  /\ registry' = [registry EXCEPT !.has = TRUE,
                                  !.set = (IF registry.has THEN registry.set ELSE {}) \cup {i},
                                  !.sess[i].made = TRUE]
  /\ UNCHANGED <<poolVars, retryVars, httpVars, doc, doc0, ins, trackers, editq, chain>>

DisposedRegistry_KeepsEmptyEntry(r, i) ==
  LET r1 == [r EXCEPT !.sess[i].disposed = TRUE,
                      !.sess[i].disposals = r.sess[i].disposals + 1]
  IN IF r.has THEN [r1 EXCEPT !.set = r.set \ {i}] ELSE r1

\* dispose() of session i
DisposedRegistry(r, i) ==
  LET r1 == [r EXCEPT !.sess[i].disposed = TRUE,
                      !.sess[i].disposals = r.sess[i].disposals + 1]
      rest == r.set \ {i}
  IN IF r.has
     THEN IF rest = {} THEN [r1 EXCEPT !.has = FALSE, !.set = {}]
          ELSE [r1 EXCEPT !.set = rest]
     ELSE r1

DisposeInserter(i) ==
  /\ registry.sess[i].made
  /\ registry.sess[i].disposals < DisposeCalls
  /\ registry' = DisposedRegistry(registry, i)
  /\ UNCHANGED <<poolVars, retryVars, httpVars, doc, doc0, ins, trackers, editq, chain>>

\* StreamInserter.queues has no entry for the document
NoChain == [tasks |-> << >>, log |-> << >>]

InsIdle ==
  /\ doc = [text |-> << >>, mark |-> [x \in Sessions |-> -1]]
  /\ doc0 = << >>
  /\ ins = << >>
  /\ trackers = {}
  /\ editq = << >>
  /\ chain = NoChain
  /\ registry = NoRegistry

(***************************************************************************)
(* StreamInserter.enqueue, one edit at a time                              *)
(*                                                                         *)
(* chain.tasks are the promises that enqueue has chained for the document, *)
(* oldest first: s is the session, op the method that called enqueue,      *)
(* edits the number of editor.edit calls the task awaits, step how many of *)
(* them it has made, st whether the promise waits for its predecessor,     *)
(* runs the task or is resolved, failed whether an edit threw, fut the     *)
(* promise that the method returned to its caller, inserted the number of  *)
(* insertions at the anchor that the document took, anchored the number of *)
(* calls of updateAnchor. chain.log lists the edits made, as [task, edit]. *)
(***************************************************************************)
\* `await this.editor.edit(...)`: the edit is applied and the promise
\* resolves to true, the editor refuses it and the promise resolves to
\* false, or the call throws. The result of the promise is not read.
EditResults == {"applied", "refused", "thrown"}
\* the edits that insert at the anchor and are followed by updateAnchor:
\* the preSeparator of start() (after the delete) and the delta
InsertEdit(op, k) == (op = "start" /\ k = 2) \/ op = "append"

\* the tasks of start() in replace mode with a preSeparator, appendDelta,
\* finish() without postSeparator, and restoreOriginal
QueueTaskInputs ==
  { [op |-> "start", edits |-> 2], [op |-> "append", edits |-> 1],
    [op |-> "finish", edits |-> 0], [op |-> "restore", edits |-> 1] }

Chained_Never(tasks, i) == TRUE

\* prev.then(...): the callback of promise i runs once promise i - 1 is
\* resolved; the first is chained to Promise.resolve()
Chained(tasks, i) == IF i = 1 THEN TRUE ELSE tasks[i - 1].st = "done"

\* enqueue(task) called by a method of session s, up to `await next`
QEnqueue(s, kind) ==
  /\ Len(chain.tasks) < MaxQueued
  /\ chain' = [chain EXCEPT !.tasks = Append(chain.tasks,
                  [s |-> s, op |-> kind.op, edits |-> kind.edits, step |-> 0,
                   st |-> "waiting", failed |-> FALSE, fut |-> "pending",
                   inserted |-> 0, anchored |-> 0])]
  /\ UNCHANGED <<poolVars, retryVars, httpVars, doc, doc0, ins, trackers, editq, registry>>

\* the callback of promise i starts: task() is called
QBegin(i) ==
  /\ i \in 1..Len(chain.tasks)
  /\ chain.tasks[i].st = "waiting"
  /\ Chained(chain.tasks, i)
  /\ chain' = [chain EXCEPT !.tasks[i].st = "running"]
  /\ UNCHANGED <<poolVars, retryVars, httpVars, doc, doc0, ins, trackers, editq, registry>>

\* an awaited editor.edit of task i settles. Applied or refused, the task
\* goes on with the statements after the await (updateAnchor after an
\* insertion); thrown, the catch of enqueue ends the task and its promise
\* resolves
QEdit(i, res) ==
  /\ i \in 1..Len(chain.tasks)
  /\ chain.tasks[i].st = "running"
  /\ chain.tasks[i].step < chain.tasks[i].edits
  /\ LET t == chain.tasks[i]
         k == t.step + 1
         moved == IF InsertEdit(t.op, k) THEN 1 ELSE 0
     IN chain' =
          CASE res = "applied" ->
                 [chain EXCEPT !.tasks[i].step = k,
                               !.tasks[i].inserted = t.inserted + moved,
                               !.tasks[i].anchored = t.anchored + moved,
                               !.log = Append(chain.log, [task |-> i, edit |-> k])]
            [] res = "refused" ->
                 [chain EXCEPT !.tasks[i].step = k,
                               !.tasks[i].anchored = t.anchored + moved]
            [] res = "thrown" ->
                 [chain EXCEPT !.tasks[i].failed = TRUE,
                               !.tasks[i].st = "done",
                               !.tasks[i].fut = "resolved"]
  /\ UNCHANGED <<poolVars, retryVars, httpVars, doc, doc0, ins, trackers, editq, registry>>

\* task i returns: promise i resolves, and so does `await next` in its caller
QEnd(i) ==
  /\ i \in 1..Len(chain.tasks)
  /\ chain.tasks[i].st = "running"
  /\ chain.tasks[i].step = chain.tasks[i].edits
  /\ chain' = [chain EXCEPT !.tasks[i].st = "done", !.tasks[i].fut = "resolved"]
  /\ UNCHANGED <<poolVars, retryVars, httpVars, doc, doc0, ins, trackers, editq, registry>>


(***************************************************************************)
(* retryWithBackoff                                                        *)
(***************************************************************************)
BaseBackoffInputs == {1, 2}
MaxBackoffInputs == {2, 3}

\* Math.pow(2, n) is Infinity for n above the largest exponent of a double
MaxExponent == 1023
\* the result NaN; every other result of exponentialJitter is >= 0
NaN == -1

\* the smaller of 2^n and the least power of two that is >= cap: baseMs *
\* Math.pow(2, n), which is exact until it overflows, is only compared with
\* maxMs
RECURSIVE Pow2Upto(_, _)
Pow2Upto(n, cap) ==
  IF n <= 0 \/ cap <= 1 THEN 1 ELSE 2 * Pow2Upto(n - 1, (cap + 1) \div 2)

\* exponentialJitter(attempt, baseMs, maxMs) for baseMs >= 0: the values it
\* can return. Math.random() is in [0, 1), so floor(random * exp) is in
\* 0..exp-1 for exp > 0, is 0 for exp = 0 and is in exp..0 for exp < 0.
\* With baseMs = 0 and Math.pow(2, a - 1) = Infinity the product is NaN, and
\* Math.min, Math.floor and Math.max hand NaN on; with baseMs > 0 the
\* product, once it is Infinity, leaves exp = maxMs.
ExponentialJitter(attempt, baseMs, maxMs) ==
  LET a == Max(1, attempt)
      overflow == a - 1 > MaxExponent
      exp == IF overflow THEN maxMs
             ELSE Min(maxMs, baseMs * Pow2Upto(a - 1, maxMs + 1))
      sleeps == IF exp > 0 THEN 0..(exp - 1) ELSE exp..0
  IN IF overflow /\ baseMs = 0
     THEN {NaN}
     ELSE {Max(0, Min(sleep, maxMs)) : sleep \in sleeps}

\* the arguments of one call of exponentialJitter
AttemptInputs == (-1..MaxAttempt) \cup {MaxExponent + 1, MaxExponent + 2}
BackoffMsInputs == 0..MaxBackoffMs

JitterIdle == [pc |-> "idle"]

\* exponentialJitter returns
JitterReturns ==
  /\ jitter.pc = "called"
  /\ \E d \in ExponentialJitter(jitter.attempt, jitter.baseMs, jitter.maxMs) :
       jitter' = [jitter EXCEPT !.pc = "returned", !.d = d]
  /\ UNCHANGED <<poolVars, insVars, httpVars, retry>>

NoError == [kind |-> "none", at |-> 0]

\* the state of a call retryWithBackoff(fn, options, signal) before its first
\* statement runs. shouldRetry is "always" (it returns true, as the default
\* does) or "free" (it returns either). The fields abortPhase, abortAttempt and
\* callsAtAbort record when the signal fired.
NewRetry(maxRetries, baseMs, maxMs, shouldRetry, sig) ==
  [ pc |-> "start", attempt |-> 0,
    maxRetries |-> maxRetries, baseBackoffMs |-> baseMs, maxBackoffMs |-> maxMs,
    shouldRetry |-> shouldRetry,
    sig |-> sig,
    calls |-> << >>,      \* the attempt numbers fn was invoked with
    retries |-> << >>,    \* the attempt numbers onRetry was called with
    delay |-> 0,          \* the backoff being waited for
    result |-> NoError,
    abortPhase |-> IF sig = "aborted" THEN "pre" ELSE "none",
    abortAttempt |-> 0,
    callsAtAbort |-> 0 ]

RetryIdle == [pc |-> "idle"]

CanRetry_OffByOne(r, allowed) == r.attempt < r.maxRetries /\ allowed

\* const can = attempt <= maxRetries && shouldRetry(err)
CanRetry(r, allowed) == r.attempt <= r.maxRetries /\ allowed

\* the catch block with error err, shouldRetry answering `allowed` and the
\* jitter drawing `delay`, up to the backoff promise's executor
CatchOf(r, err, allowed, delay) ==
  IF ~CanRetry(r, allowed)
  THEN [r EXCEPT !.pc = "rejected", !.result = err]
  ELSE LET r1 == [r EXCEPT !.retries = Append(r.retries, r.attempt)]
       IN IF r1.sig = "aborted"
          THEN [r1 EXCEPT !.pc = "rejected",
                          !.result = [kind |-> "aborted", at |-> r.attempt]]
          ELSE [r1 EXCEPT !.pc = "waiting", !.delay = delay]

AbortedAtTop_NoCheck(r) == FALSE

\* if (signal?.aborted) at the top of the try block
AbortedAtTop(r) == r.sig = "aborted"

\* the outcomes of the catch block for error err: shouldRetry is consulted
\* only when attempt <= maxRetries
CatchOutcomes(r, err) ==
  { CatchOf(r, err, allowed, delay) :
      allowed \in (IF r.shouldRetry = "always" THEN {TRUE} ELSE BOOLEAN),
      delay \in ExponentialJitter(r.attempt, r.baseBackoffMs, r.maxBackoffMs) }

\* one turn of the while loop up to its first await: the states it can reach
IterateOutcomes(r) ==
  LET r1 == [r EXCEPT !.attempt = r.attempt + 1, !.delay = 0]
  IN IF AbortedAtTop(r1)
     THEN CatchOutcomes(r1, [kind |-> "aborted", at |-> r1.attempt])
     ELSE { [r1 EXCEPT !.pc = "inFn", !.calls = Append(r1.calls, r1.attempt)] }

\* the call runs up to its first await
RetryBegin ==
  /\ retry.pc = "start"
  /\ retry' \in IterateOutcomes(retry)
  /\ UNCHANGED <<poolVars, insVars, httpVars, jitter>>

\* the promise of fn(attempt, signal) settles: "ok", "fail" (its own error),
\* or "aborted" when fn observed the fired signal
FnSettles(outcome) ==
  /\ retry.pc = "inFn"
  /\ outcome = "aborted" => retry.sig = "aborted"
  /\ IF outcome = "ok"
     THEN retry' = [retry EXCEPT !.pc = "resolved",
                                 !.result = [kind |-> "ok", at |-> retry.attempt]]
     ELSE retry' \in CatchOutcomes(retry, [kind |-> outcome, at |-> retry.attempt])
  /\ UNCHANGED <<poolVars, insVars, httpVars, jitter>>

\* the backoff timer fires: the wait resolves and the loop goes round
BackoffElapsed ==
  /\ retry.pc = "waiting"
  /\ retry' \in IterateOutcomes(retry)
  /\ UNCHANGED <<poolVars, insVars, httpVars, jitter>>

\* the signal fires, during an attempt or during a backoff wait (onAbort)
RetryAbort ==
  /\ retry.pc \in {"inFn", "waiting"}
  /\ retry.sig = "clear"
  /\ LET r1 == [retry EXCEPT !.sig = "aborted",
                             !.abortPhase = IF retry.pc = "inFn" THEN "attempt" ELSE "wait",
                             !.abortAttempt = retry.attempt,
                             !.callsAtAbort = Len(retry.calls)]
     IN retry' = IF retry.pc = "waiting"
                 THEN [r1 EXCEPT !.pc = "rejected",
                                 !.result = [kind |-> "aborted", at |-> retry.attempt]]
                 ELSE r1
  /\ UNCHANGED <<poolVars, insVars, httpVars, jitter>>

(***************************************************************************)
(* HttpClient.generate                                                     *)
(*                                                                         *)
(* One call of generate with the onDelta and onRateLimitHint callbacks     *)
(* set. The record http holds the locals of the call, where it is waiting  *)
(* (pc), and what it has done: calls has one entry per fetch() issued with *)
(* a signal that was not aborted, hints has the onRateLimitHint calls made *)
(* for the latest response.                                                *)
(***************************************************************************)
Absent == -1     \* a header that the response does not have
StatusInputs == {200, 429, 500, 503}
RetryAfterSecInputs == {Absent, 0, 1}
LimitHeaderInputs == {Absent, 2}

\* the responses of the server: only a 200 is an event stream, the body of
\* a 500 may contain the word "abort"
ResponseInputs ==
  { r \in [status : StatusInputs, retryAfter : RetryAfterSecInputs,
           limit : LimitHeaderInputs, sse : BOOLEAN, abortWord : BOOLEAN] :
      /\ r.status # 200 => ~r.sse
      /\ r.status # 500 => ~r.abortWord
      /\ r.status \in {200, 500} => (r.retryAfter = 1) = (r.limit = 2) }
NoResponse ==
  [status |-> 0, retryAfter |-> Absent, limit |-> Absent, sse |-> FALSE, abortWord |-> FALSE]

\* parseRetryAfterMs for a header in seconds
ParseRetryAfterMs(res) ==
  IF res.retryAfter = Absent THEN Absent ELSE Max(0, res.retryAfter * 1000)
\* parseLimitPerMinute
ParseLimitPerMinute(res) ==
  IF res.limit # Absent /\ res.limit > 0 THEN res.limit ELSE Absent

HttpErr(kind, status) == [kind |-> kind, status |-> status]
NoHttpErr == HttpErr("none", 0)
AbortErr == HttpErr("abort", 0)

\* isAbortError(err): the name is AbortError or the message contains "abort";
\* the message of an HTTP-status error contains an excerpt of the body
IsAbortError(err, res) ==
  \/ err.kind = "abort"
  \/ (err.kind = "status" /\ res.abortWord)

OkStatus(st) == st >= 200 /\ st <= 299
RetryStatus_None(st) == FALSE

\* res.status === 429 || res.status === 503
RetryStatus(st) == st = 429 \/ st = 503

NewHttp(maxRetries, baseMs, maxMs, stream, sig) ==
  [ pc |-> "start", attempt |-> 0,
    maxRetries |-> maxRetries, baseBackoffMs |-> baseMs, maxBackoffMs |-> maxMs,
    stream |-> stream,
    sig |-> sig,
    lastErr |-> NoHttpErr,
    res |-> NoResponse,       \* the response being handled
    result |-> NoHttpErr,     \* how the call settled
    calls |-> << >>,          \* the outcome of each fetch issued: kind and status
    hints |-> << >>,          \* the onRateLimitHint calls for the latest response
    delay |-> 0,              \* the argument of the sleep being waited for
    sleepFor |-> "none",      \* "status": the sleep of line 199, "error": of line 227
    chunks |-> 0,             \* the chunks read that were not the last
    delivered |-> 0,          \* the onDelta calls made
    seen |-> << >>,           \* the deltas passed to onDelta, in the order of the calls
    totalText |-> << >>,      \* totalText of the consumeSSE call in progress
    text |-> << >>,           \* the text that generate returned
    completed |-> 0,          \* the onDelta calls whose promise has settled
    abortPc |-> IF sig = "aborted" THEN "start" ELSE "none",
    callsAtAbort |-> 0 ]

HttpIdle == [pc |-> "idle"]

HttpRejected(h, err) == [h EXCEPT !.pc = "rejected", !.result = err]

\* the while condition and the turn of the loop up to the await of fetch;
\* doFetch aborts its controller before fetch when the signal is aborted, and
\* fetch then rejects without a request
HttpLoopTop(h) ==
  IF h.attempt <= h.maxRetries
  THEN LET h1 == [h EXCEPT !.attempt = h.attempt + 1, !.delay = 0,
                           !.sleepFor = "none"]
       IN IF h1.sig = "aborted"
          THEN HttpRejected([h1 EXCEPT !.lastErr = AbortErr], AbortErr)
          ELSE [h1 EXCEPT !.pc = "fetching", !.calls = Append(h1.calls, HttpErr("sent", 0)),
                          !.res = NoResponse, !.hints = << >>]
  ELSE HttpRejected(h, IF h.lastErr = NoHttpErr THEN HttpErr("unknown", 0) ELSE h.lastErr)

\* await sleep(delay, signal); continue
HttpSleep(h, delay, why) ==
  IF delay <= 0 THEN HttpLoopTop(h)
  ELSE IF h.sig = "aborted"
  THEN HttpRejected([h EXCEPT !.lastErr = IF why = "status" THEN AbortErr ELSE h.lastErr],
                    AbortErr)
  ELSE [h EXCEPT !.pc = "sleeping", !.delay = delay, !.sleepFor = why]

\* the catch block of generate with error err: the states it can reach
HttpCatch(h, err) ==
  LET h1 == [h EXCEPT !.lastErr = err]
  IN IF IsAbortError(err, h.res) THEN { HttpRejected(h1, err) }
     ELSE IF h1.attempt <= h1.maxRetries
     THEN { HttpSleep(h1, d, "error") :
              d \in ExponentialJitter(h1.attempt, h1.baseBackoffMs, h1.maxBackoffMs) }
     ELSE { HttpRejected(h1, err) }

\* applyRateLimitHint(res)
ApplyRateLimitHint(h, res) ==
  LET retryAfterMs == ParseRetryAfterMs(res)
      perMin == ParseLimitPerMinute(res)
  IN IF retryAfterMs # Absent \/ perMin # Absent
     THEN [h EXCEPT !.hints = Append(h.hints, [retryAfterMs |-> retryAfterMs,
                                               limitPerMinuteHint |-> perMin])]
     ELSE h

SetLast(q, x) == [q EXCEPT ![Len(q)] = x]

\* generate is called and runs up to its first await
HttpBegin ==
  /\ http.pc = "start"
  /\ http' = HttpLoopTop(http)
  /\ UNCHANGED <<poolVars, retryVars, insVars>>

\* fetch rejects: with a network error ("net"), or with an AbortError when
\* the timer of doFetch aborts it ("timeout")
FetchFails(kind) ==
  /\ http.pc = "fetching"
  /\ http' \in HttpCatch([http EXCEPT !.calls = SetLast(http.calls, HttpErr(kind, 0))],
                          IF kind = "net" THEN HttpErr("net", 0) ELSE AbortErr)
  /\ UNCHANGED <<poolVars, retryVars, insVars>>

\* fetch resolves with a response, whose hints are reported; then its body
\* is read, as an event stream when streaming was asked for
FetchResponds(res) ==
  /\ http.pc = "fetching"
  /\ LET h1 == ApplyRateLimitHint(
                  [http EXCEPT !.calls = SetLast(http.calls, HttpErr("status", res.status)),
                               !.res = res], res)
     IN http' = IF OkStatus(res.status) /\ h1.stream /\ res.sse
                THEN [h1 EXCEPT !.pc = "streaming", !.totalText = << >>]
                ELSE [h1 EXCEPT !.pc = "body"]
  /\ UNCHANGED <<poolVars, retryVars, insVars>>

\* the body of the response has been read: safeReadText of a response that
\* is not ok, res.json() of one that is
BodyRead ==
  /\ http.pc = "body"
  /\ LET res == http.res
     IN IF ~OkStatus(res.status)
        THEN IF RetryStatus(res.status) /\ http.attempt <= http.maxRetries
             THEN LET retryAfterMs == ParseRetryAfterMs(res)
                      h1 == [http EXCEPT !.hints =
                               Append(http.hints, [retryAfterMs |-> retryAfterMs,
                                                   limitPerMinuteHint |-> Absent])]
                  IN IF retryAfterMs # Absent
                     THEN http' = HttpSleep(h1, retryAfterMs, "status")
                     ELSE \E d \in ExponentialJitter(http.attempt, http.baseBackoffMs,
                                                     http.maxBackoffMs) :
                            http' = HttpSleep(h1, d, "status")
             ELSE http' \in HttpCatch(http, HttpErr("status", res.status))
        ELSE http' = [http EXCEPT !.pc = "resolved", !.result = HttpErr("ok", 0)]
  /\ UNCHANGED <<poolVars, retryVars, insVars>>

\* the timer of sleep fires
SleepElapsed ==
  /\ http.pc = "sleeping"
  /\ http' = HttpLoopTop(http)
  /\ UNCHANGED <<poolVars, retryVars, insVars>>

\* the data lines of a chunk that carry a delta: the server sends the
\* deltas of its answer in order, so the k-th delta of a stream is delta k,
\* and the next n follow those that this consumeSSE call has taken
NextDeltas(h, n) == [k \in 1..n |-> Len(h.totalText) + k]

\* the inner loop of consumeSSE over n data lines with a delta:
\* totalText += delta; onDelta?.(delta)
TakeDeltas(h, n) ==
  LET ds == NextDeltas(h, n)
  IN [h EXCEPT !.totalText = h.totalText \o ds,
               !.seen = h.seen \o ds,
               !.delivered = h.delivered + n]

\* consumeSSE: reader.read() settles. It rejects ("error"), reports the end
\* of the body ("eof"), or gives a chunk with n deltas that ends the stream
\* with [DONE] ("done") or does not ("more"); onDelta is called for each
\* delta and its promise is dropped. The data lines that follow [DONE] in
\* its chunk are not looked at.
StreamRead(kind, n) ==
  /\ http.pc = "streaming"
  /\ kind = "more" => http.chunks < MaxChunks
  /\ kind \in {"error", "eof"} => n = 0
  /\ CASE kind = "error" -> http' \in HttpCatch(http, HttpErr("net", 0))
       [] kind = "eof" -> http' = [http EXCEPT !.pc = "resolved",
                                               !.result = HttpErr("ok", 0),
                                               !.text = http.totalText]
       [] kind = "done" -> http' = LET h1 == TakeDeltas(http, n)
                                   IN [h1 EXCEPT !.pc = "resolved",
                                                 !.result = HttpErr("ok", 0),
                                                 !.text = h1.totalText]
       [] kind = "more" ->
            LET h1 == [TakeDeltas(http, n) EXCEPT !.chunks = http.chunks + 1]
            IN IF h1.sig = "aborted"
               THEN http' \in HttpCatch(h1, AbortErr)
               ELSE http' = h1
  /\ UNCHANGED <<poolVars, retryVars, insVars>>

\* the promise of the oldest unsettled onDelta call settles
DeltaCallbackCompletes ==
  /\ http.pc # "idle"
  /\ http.completed < http.delivered
  /\ http' = [http EXCEPT !.completed = http.completed + 1]
  /\ UNCHANGED <<poolVars, retryVars, insVars>>

\* the caller's signal fires. The listener of doFetch aborts a fetch in
\* flight and the listener of sleep rejects the sleep; nothing listens while
\* a body or a stream is read.
HttpAbort ==
  /\ http.pc \in {"fetching", "body", "streaming", "sleeping"}
  /\ http.sig = "clear"
  /\ LET h1 == [http EXCEPT !.sig = "aborted", !.abortPc = http.pc,
                            !.callsAtAbort = Len(http.calls)]
     IN CASE http.pc = "fetching" ->
               http' \in HttpCatch([h1 EXCEPT !.calls = SetLast(h1.calls, HttpErr("aborted", 0))],
                                   AbortErr)
          [] http.pc = "sleeping" ->
               http' = HttpRejected([h1 EXCEPT !.lastErr =
                                       IF h1.sleepFor = "status" THEN AbortErr
                                       ELSE h1.lastErr], AbortErr)
          [] OTHER -> http' = h1
  /\ UNCHANGED <<poolVars, retryVars, insVars>>

DeltaCounts == {0, 1, 2}

HttpInit ==
  /\ \E n \in 0..MaxRetries, b \in BaseBackoffInputs, m \in MaxBackoffInputs,
        st \in BOOLEAN, sg \in {"clear", "aborted"} :
       http = NewHttp(n, b, m, st, sg)
  /\ pool = NewPool(1, 1, FALSE)
  /\ now = 0
  /\ retry = RetryIdle
  /\ jitter = JitterIdle
  /\ InsIdle

HttpNext ==
  \/ HttpBegin
  \/ \E kind \in {"net", "timeout"} : FetchFails(kind)
  \/ \E res \in ResponseInputs : FetchResponds(res)
  \/ BodyRead
  \/ SleepElapsed
  \/ \E kind \in {"error", "eof", "done", "more"}, n \in DeltaCounts : StreamRead(kind, n)
  \/ DeltaCallbackCompletes
  \/ HttpAbort

SpecHttp == HttpInit /\ [][HttpNext]_vars

HttpDone == http.pc \in {"resolved", "rejected"}

RetryInit ==
  /\ \E n \in 0..MaxRetries, b \in BaseBackoffInputs, m \in MaxBackoffInputs,
        sr \in {"always", "free"}, sg \in {"none", "clear", "aborted"} :
        retry = NewRetry(n, b, m, sr, sg)
  /\ jitter = JitterIdle
  /\ pool = NewPool(1, 1, FALSE)
  /\ now = 0
  /\ InsIdle
  /\ http = HttpIdle

RetryNext ==
  \/ RetryBegin
  \/ \E o \in {"ok", "fail", "aborted"} : FnSettles(o)
  \/ BackoffElapsed
  \/ RetryAbort

SpecRetry == RetryInit /\ [][RetryNext]_vars

RetryDone == retry.pc \in {"resolved", "rejected"}
UpTo(n) == [i \in 1..n |-> i]

\* the generate command constructs one session per selection, all with the
\* configured mode and separators, before any of their tasks runs
InsInit ==
  /\ doc0 = Text0
  /\ doc = [text |-> Text0, mark |-> [x \in Sessions |-> -1]]
  /\ \E rs \in RangeInputs, mode \in {"append", "replace"}, sep \in SeparatorInputs :
       ins = [x \in Sessions |-> NewInserter(Text0, rs[x], mode, sep[1], sep[2])]
  /\ trackers = Sessions
  /\ registry = NoRegistry
  /\ editq = << >>
  /\ chain = NoChain
  /\ pool = NewPool(1, 1, FALSE)
  /\ now = 0
  /\ retry = RetryIdle
  /\ jitter = JitterIdle
  /\ http = HttpIdle

InsNext ==
  \/ \E s \in Sessions : CallStart(s)
  \/ \E s \in Sessions : \E text \in DeltaInputs(s) : CallAppendDelta(s, text)
  \/ \E s \in Sessions : CallFinish(s)
  \/ \E s \in Sessions : CallRestoreOriginal(s)
  \/ \E s \in Sessions : DisposeSession(s)
  \/ RunNext

SpecIns == InsInit /\ [][InsNext]_vars

\* the selections of the command lie on different lines: two whole lines,
\* or a first one that spans a line break
GenerateRanges ==
  { <<Rng(Pos(0, 0), Pos(0, 2)), Rng(Pos(1, 0), Pos(1, 2))>>,
    <<Rng(Pos(0, 0), Pos(1, 0)), Rng(Pos(2, 0), Pos(2, 2))>> }
\* its separators: none, or both
GenerateSeparators == { << << >>, << >> >>, << <<SepChar>>, <<LF>> >> }

\* the generate command in streaming mode: both selections' tasks have
\* constructed their session and called start(), in either order
GenerateInit ==
  /\ doc0 = Text0
  /\ doc = [text |-> Text0, mark |-> [x \in Sessions |-> -1]]
  /\ \E rs \in GenerateRanges, mode \in {"append", "replace"}, sep \in GenerateSeparators :
       ins = [x \in Sessions |->
                [NewSelectionTask(Text0, rs[x], mode, sep[1], sep[2])
                   EXCEPT !.pc = "starting", !.asked = <<Op("start", << >>)>>]]
  /\ trackers = Sessions
  /\ registry = NoRegistry
  /\ \E first \in Sessions :
       editq = << [op |-> "start", s |-> first, text |-> << >>],
                  [op |-> "start", s |-> 3 - first, text |-> << >>] >>
  /\ chain = NoChain
  /\ pool = NewPool(1, 1, FALSE)
  /\ now = 0
  /\ retry = RetryIdle
  /\ jitter = JitterIdle
  /\ http = HttpIdle

GenerateNext ==
  \/ \E s \in Sessions : CallSchedule(s)
  \/ \E s \in Sessions : Admit(s)
  \/ \E s \in Sessions : \E text \in DeltaInputs(s) : OnDelta(s, text)
  \/ UserCancels
  \/ \E s \in Sessions : ObserveAbort(s)
  \/ \E s \in Sessions : GenerationFails(s)
  \/ \E s \in Sessions : GenerationResolves(s)
  \/ \E s \in Sessions : DisposeSession(s)
  \/ \E s \in Sessions : RestoreEmpty(s)
  \/ RunNext

SpecGenerate == GenerateInit /\ [][GenerateNext]_vars

JitterInit ==
  /\ \E a \in AttemptInputs, b \in BackoffMsInputs, m \in BackoffMsInputs :
       jitter = [pc |-> "called", attempt |-> a, baseMs |-> b, maxMs |-> m, d |-> 0]
  /\ retry = RetryIdle
  /\ pool = NewPool(1, 1, FALSE)
  /\ now = 0
  /\ InsIdle
  /\ http = HttpIdle

JitterNext == JitterReturns

SpecJitter == JitterInit /\ [][JitterNext]_vars

\* One call of updateAnchor(text) by session 1 for a text waiting in an
\* appendDelta task, with the anchor anywhere on the first two lines.
MaxTextLen == 3
RECURSIVE TextsUpTo(_)
TextsUpTo(n) ==
  IF n = 0 THEN { << >> }
  ELSE LET shorter == TextsUpTo(n - 1)
       IN shorter \cup { Append(t, ch) : t \in shorter, ch \in {CharOf(1), LF, CR} }
AnchorTextInputs == TextsUpTo(MaxTextLen) \ { << >> }
AnchorInputs == { Pos(l, c) : l \in 0..1, c \in 0..2 }

AnchorInit ==
  /\ doc0 = Text0
  /\ doc = [text |-> Text0, mark |-> [x \in Sessions |-> -1]]
  /\ \E a \in AnchorInputs :
       ins = [x \in Sessions |->
                LET o == NewInserter(Text0, Rng(Pos(x, 0), Pos(x, 1)), "append", << >>, << >>)
                IN IF x = 1 THEN [o EXCEPT !.anchor = a, !.initialAnchor = a] ELSE o]
  /\ trackers = Sessions
  /\ registry = NoRegistry
  /\ \E t \in AnchorTextInputs : editq = << [op |-> "append", s |-> 1, text |-> t] >>
  /\ chain = NoChain
  /\ pool = NewPool(1, 1, FALSE)
  /\ now = 0
  /\ retry = RetryIdle
  /\ jitter = JitterIdle
  /\ http = HttpIdle

\* this.updateAnchor(text) in the task of appendDelta
AnchorAdvances ==
  /\ editq # << >>
  /\ LET task == Head(editq)
         ss1 == UpdateAnchor(ins, trackers, task.s, task.text)
     IN ins' = [ss1 EXCEPT ![task.s].written = ss1[task.s].written \o task.text]
  /\ editq' = Tail(editq)
  /\ UNCHANGED <<poolVars, retryVars, httpVars, doc, doc0, trackers, registry, chain>>

AnchorNext == AnchorAdvances

SpecAnchor == AnchorInit /\ [][AnchorNext]_vars

RegistryInit ==
  /\ InsIdle
  /\ pool = NewPool(1, 1, FALSE)
  /\ now = 0
  /\ retry = RetryIdle
  /\ jitter = JitterIdle
  /\ http = HttpIdle

RegistryNext ==
  \/ \E i \in InserterIds : Construct(i)
  \/ \E i \in InserterIds : DisposeInserter(i)

SpecRegistry == RegistryInit /\ [][RegistryNext]_vars

QueueInit ==
  /\ InsIdle
  /\ pool = NewPool(1, 1, FALSE)
  /\ now = 0
  /\ retry = RetryIdle
  /\ jitter = JitterIdle
  /\ http = HttpIdle

QueueNext ==
  \/ \E s \in Sessions, kind \in QueueTaskInputs : QEnqueue(s, kind)
  \/ \E i \in 1..MaxQueued : QBegin(i)
  \/ \E i \in 1..MaxQueued, res \in EditResults : QEdit(i, res)
  \/ \E i \in 1..MaxQueued : QEnd(i)

SpecQueue == QueueInit /\ [][QueueNext]_vars

PoolInit ==
  /\ \E c \in ConcInputs, r \in RpmInputs, probe \in BOOLEAN : pool = NewPool(c, r, probe)
  /\ now = 0
  /\ retry = RetryIdle
  /\ jitter = JitterIdle
  /\ InsIdle
  /\ http = HttpIdle

PoolNext ==
  \/ \E k \in {"clear", "aborted"} : Schedule(k)
  \/ \E id \in TaskIds : OnAbort(id)
  \/ \E id \in TaskIds, o \in {"resolved", "failed"} : Settle(id, o)
  \/ CancelAll
  \/ Dispose
  \/ \E c \in ConcInputs, r \in RpmInputs : UpdateLimits(c, r)
  \/ \E ra \in RetryAfterInputs, lh \in LimitHintInputs : ApplyServerHint(ra, lh)
  \/ Refill
  \/ \E d \in TimeSteps : AdvanceTime(d)

SpecPool == PoolInit /\ [][PoolNext]_vars

\* A freshly constructed pool whose limits nobody changes, with a burst of
\* calls of schedule.
FreshPoolInit ==
  /\ \E c \in ConcInputs, r \in RpmInputs, probe \in BOOLEAN :
       pool = [NewPool(c, r, probe) EXCEPT !.task = [t \in BurstIds |-> NoTask]]
  /\ now = 0
  /\ retry = RetryIdle
  /\ jitter = JitterIdle
  /\ InsIdle
  /\ http = HttpIdle

FreshPoolNext ==
  \/ \E k \in {"clear", "aborted"} : ScheduleUpTo(BurstTasks, k)
  \/ \E id \in BurstIds : OnAbort(id)
  \/ \E id \in BurstIds, o \in {"resolved", "failed"} : Settle(id, o)
  \/ CancelAll
  \/ Refill
  \/ \E d \in TimeSteps : AdvanceTime(d)

SpecFreshPool == FreshPoolInit /\ [][FreshPoolNext]_vars

\* A pool that is not disposed, over unbounded time: every started action
\* terminates, the refill tick keeps firing and time keeps passing.
LivePoolNext ==
  \/ \E k \in {"clear", "aborted"} : Schedule(k)
  \/ \E id \in TaskIds : OnAbort(id)
  \/ \E id \in TaskIds, o \in {"resolved", "failed"} : Settle(id, o)
  \/ CancelAll
  \/ \E c \in ConcInputs, r \in RpmInputs : UpdateLimits(c, r)
  \/ \E ra \in RetryAfterInputs, lh \in LimitHintInputs : ApplyServerHint(ra, lh)
  \/ Refill
  \/ \E d \in TimeSteps : TimePasses(d)

SpecLivePool ==
  /\ PoolInit
  /\ [][LivePoolNext]_vars
  /\ \A id \in TaskIds : WF_vars(\E o \in {"resolved", "failed"} : Settle(id, o))
  /\ WF_vars(Refill)
  /\ WF_vars(\E d \in TimeSteps : TimePasses(d))

\* A pool whose limits only the hints of the server change.
HintedPoolNext ==
  \/ \E k \in {"clear", "aborted"} : Schedule(k)
  \/ \E id \in TaskIds, o \in {"resolved", "failed"} : Settle(id, o)
  \/ \E ra \in RetryAfterInputs, lh \in LimitHintInputs : ApplyServerHint(ra, lh)
  \/ Refill
  \/ \E d \in TimeSteps : AdvanceTime(d)

SpecHintedPool == PoolInit /\ [][HintedPoolNext]_vars

\* the tasks that were admitted and have not settled
ActiveTasks(p) == {t \in DOMAIN p.task : p.task[t].st = "running"}
\* the tasks that were ever admitted
AdmittedTasks(p) == {t \in DOMAIN p.task : p.task[t].st \in {"running", "settled"}}

(***************************************************************************)
(* C1. As claimed: in every reachable state the number of running tasks is *)
(* at most the current maxConcurrency. updateLimits can lower              *)
(* maxConcurrency below the number of tasks already running, so this fails.*)
(***************************************************************************)
C1_RunningWithinLimit ==
  Cardinality(ActiveTasks(pool)) <= pool.maxConcurrency

(***************************************************************************)
(* C1, amended. The number of running tasks grows only up to the current   *)
(* maxConcurrency, and it stays within maxConcurrency over every step that *)
(* starts within it and does not lower maxConcurrency; the counter         *)
(* `running` is the number of running tasks.                               *)
(***************************************************************************)
C1_AdmissionWithinLimit ==
  [][ /\ pool'.running = Cardinality(ActiveTasks(pool'))
      /\ (Cardinality(ActiveTasks(pool')) > Cardinality(ActiveTasks(pool))
            => Cardinality(ActiveTasks(pool')) <= pool'.maxConcurrency)
      /\ ((Cardinality(ActiveTasks(pool)) <= pool.maxConcurrency
            /\ pool'.maxConcurrency >= pool.maxConcurrency)
            => Cardinality(ActiveTasks(pool')) <= pool'.maxConcurrency) ]_vars

\* the cap binds: as many tasks run as allowed, with a task queued, a token
\* left and no cooldown
C1_Witness ==
  /\ pool.running = pool.maxConcurrency
  /\ pool.running >= 1
  /\ Len(pool.queue) > 0
  /\ pool.tokens >= TokenUnit
  /\ now >= pool.cooldownUntil

(***************************************************************************)
(* C3. On a pool whose limits are those of its construction, the n-th task *)
(* admitted is admitted no earlier than (n - 1) * 60000 / maxPerMinute ms  *)
(* after construction.                                                     *)
(***************************************************************************)
C3_AdmissionsSpacedByRate ==
  Cardinality(AdmittedTasks(pool)) >= 1
    => (Cardinality(AdmittedTasks(pool)) - 1) * MinuteMs <= pool.maxPerMinute * now

(***************************************************************************)
(* C4. A step of cancelAll empties the queue, rejects every task that was  *)
(* queued with Canceled, and leaves running and every running task as they *)
(* were; and no step of the pool settles a running task's future as        *)
(* Canceled: a running task settles with its action's outcome.             *)
(***************************************************************************)
C4_CancelAllRejectsOnlyQueued ==
  [][ /\ \/ /\ pool'.queue = << >>
            /\ \A t \in TaskIds : InQueue(pool, t) => pool'.task[t].fut = "canceled"
            /\ pool'.running = pool.running
            /\ \A t \in TaskIds : pool.task[t].st = "running" => pool'.task[t] = pool.task[t]
         \/ ~CancelAll
      /\ \A t \in TaskIds :
           pool.task[t].st = "running" =>
              \/ pool'.task[t].st = "running" /\ pool'.task[t].fut = "pending"
              \/ pool'.task[t].st = "settled" /\ pool'.task[t].fut \in {"resolved", "failed"} ]_vars

\* cancelAll rejected a queued task while an earlier task was running, and
\* that task is running still
C4_Witness ==
  \E t1, t2 \in TaskIds :
    /\ t1 < t2
    /\ pool.task[t1].st = "running"
    /\ pool.task[t2] = [st |-> "dropped", fut |-> "canceled", ctl |-> TRUE, sig |-> "gone"]

(***************************************************************************)
(* C5. A step of dispose stops the refill timer, empties the queue and     *)
(* rejects the future of every task that was queued with Canceled.         *)
(***************************************************************************)
C5_DisposeRejectsQueued ==
  [][ Dispose =>
        /\ ~pool'.refillTimer
        /\ pool'.queue = << >>
        /\ \A t \in TaskIds : InQueue(pool, t) => pool'.task[t].fut = "canceled" ]_vars

(***************************************************************************)
(* C9. When retryWithBackoff rejects with no cancellation and a shouldRetry *)
(* that always allows (so every invocation failed), the operation was       *)
(* invoked with attempts 1..maxRetries+1, onRetry was called with attempts  *)
(* 1..maxRetries in that order, and the rejection is the error of the last  *)
(* invocation.                                                              *)
(***************************************************************************)
C9_ExhaustsRetries ==
  (retry.pc = "rejected" /\ retry.shouldRetry = "always" /\ retry.sig # "aborted")
    => /\ retry.calls = UpTo(retry.maxRetries + 1)
       /\ retry.retries = UpTo(retry.maxRetries)
       /\ retry.result = [kind |-> "fail", at |-> retry.maxRetries + 1]

\* an always-failing operation exhausted two retries
C9_Witness ==
  /\ retry.pc = "rejected" /\ retry.shouldRetry = "always" /\ retry.sig # "aborted"
  /\ retry.maxRetries = 2
  /\ Len(retry.calls) = 3

(***************************************************************************)
(* C10. As claimed: once the signal has fired, the operation is not        *)
(* invoked again and the call, when it ends, has rejected with Canceled.   *)
(* An attempt in flight when the signal fires can still succeed, or fail    *)
(* with its own error when no retry is left, so this fails.                 *)
(***************************************************************************)
C10_CancelAlwaysRejectsCanceled ==
  retry.sig = "aborted" =>
    /\ Len(retry.calls) = retry.callsAtAbort
    /\ RetryDone => (retry.pc = "rejected" /\ retry.result.kind = "aborted")

(***************************************************************************)
(* C10, amended. Once the signal has fired the operation is not invoked    *)
(* again. A signal set before the first attempt gives zero invocations and *)
(* a Canceled rejection; a signal that fires during a backoff wait rejects *)
(* the call with Canceled at once; a signal that fires during an attempt   *)
(* leads to a Canceled rejection unless that same attempt succeeds, or      *)
(* fails with its own error when no retry is allowed (the attempt number    *)
(* exceeds maxRetries or shouldRetry refuses), which then is the outcome.   *)
(***************************************************************************)
C10_CancelStopsAttempts ==
  retry.sig = "aborted" =>
    /\ Len(retry.calls) = retry.callsAtAbort
    /\ retry.abortPhase = "pre" =>
         /\ retry.calls = << >>
         /\ retry.pc \in {"start", "rejected"}
         /\ retry.pc = "rejected" => retry.result.kind = "aborted"
    /\ retry.abortPhase = "wait" =>
         (retry.pc = "rejected" /\ retry.result.kind = "aborted")
    /\ (retry.abortPhase = "attempt" /\ RetryDone) =>
         \/ retry.pc = "rejected" /\ retry.result.kind = "aborted"
         \/ retry.pc = "resolved" /\ retry.result.at = retry.abortAttempt
         \/ /\ retry.pc = "rejected"
            /\ retry.result = [kind |-> "fail", at |-> retry.abortAttempt]
            /\ (retry.abortAttempt > retry.maxRetries \/ retry.shouldRetry = "free")

\* the signal fired during an attempt that then failed with its own error
\* while retries were left, and the call rejected with Canceled
C10_Witness ==
  /\ retry.pc = "rejected" /\ retry.result.kind = "aborted"
  /\ retry.abortPhase = "attempt"
  /\ retry.abortAttempt <= retry.maxRetries
  /\ retry.retries # << >>
  /\ retry.retries[Len(retry.retries)] = retry.abortAttempt

(***************************************************************************)
(* Claims about StreamInserter                                             *)
(***************************************************************************)
Live(s) == s \in trackers /\ ~ins[s].disposed

(***************************************************************************)
(* C2: the anchor of every live session that has inserted text is the      *)
(* document position right after the text the session inserted last.       *)
(***************************************************************************)
C2_AnchorFollowsOwnText ==
  \A s \in Sessions :
    (Live(s) /\ doc.mark[s] # -1) => ins[s].anchor = PositionAt(doc.text, doc.mark[s])

(***************************************************************************)
(* C6: when a session has run restoreOriginal with the text its range had  *)
(* at construction, and no other session has touched the document, the     *)
(* document's text is the text it had when the session was constructed.    *)
(***************************************************************************)
C6_RestoreGivesBackOriginal ==
  \A s \in Sessions :
    (ins[s].pc = "restored" /\ \A x \in Sessions \ {s} : ins[x].pc = "new")
      => doc.text = doc0

\* the text after session s alone has written all its text at its original
\* range of text t
WrittenAtRange(t, s) ==
  LET a == OffsetAt(t, ins[s].range0.start)
      b == OffsetAt(t, ins[s].range0.end)
  IN IF ins[s].mode = "replace"
     THEN SubSeq(t, 1, a) \o ins[s].written \o SubSeq(t, b + 1, Len(t))
     ELSE SubSeq(t, 1, b) \o ins[s].written \o SubSeq(t, b + 1, Len(t))

(***************************************************************************)
(* C7: when both sessions have finished, whatever the order in which their *)
(* tasks ran, the document's text is the original text with the text of    *)
(* session 1 written at its original range and the text of session 2       *)
(* written at its original range.                                          *)
(***************************************************************************)
C7_InterleavingEqualsSequential ==
  (\A s \in Sessions : ins[s].pc = "finished")
    => doc.text = WrittenAtRange(WrittenAtRange(doc0, 2), 1)

\* the text that a task inserts
TextOf(task) ==
  CASE task.op = "start"   -> ins[task.s].preSeparator
    [] task.op = "append"  -> task.text
    [] task.op = "finish"  -> IF ins[task.s].inserted THEN ins[task.s].postSeparator
                              ELSE << >>
    [] task.op = "restore" -> << >>
\* the number of lines that a task removes before it inserts
LinesDeletedBy(task) ==
  IF task.op = "start" /\ ins[task.s].mode = "replace"
  THEN ins[task.s].originalRange.end.line - ins[task.s].originalRange.start.line
  ELSE 0
StartsAfter(b, a) ==
  \/ ins[b].originalStartLine > ins[a].originalStartLine
  \/ /\ ins[b].originalStartLine = ins[a].originalStartLine
     /\ ins[b].originalStartChar > ins[a].originalStartChar
LinesMoved(o, n) ==
  [o EXCEPT !.anchor = Pos(o.anchor.line + n, o.anchor.character),
            !.initialAnchor = Pos(o.initialAnchor.line + n, o.initialAnchor.character),
            !.originalRange = Rng(Pos(o.originalRange.start.line + n,
                                      o.originalRange.start.character),
                                  Pos(o.originalRange.end.line + n,
                                      o.originalRange.end.character))]

(***************************************************************************)
(* C8: when a task of session a inserts text with K line breaks after      *)
(* deleting L lines (L > 0 only for a replace-mode start), every other     *)
(* live session whose original start is after a's has the lines of its     *)
(* anchor, initialAnchor and originalRange moved by exactly K - L and      *)
(* nothing else changed; every other session is left as it was.            *)
(***************************************************************************)
C8_SiblingLinesShift ==
  [][ RunNext =>
        LET task == Head(editq)
            a == task.s
            K == Breaks(TextOf(task))
            L == LinesDeletedBy(task)
        IN \A b \in Sessions \ {a} :
             ins'[b] = IF Live(b) /\ StartsAfter(b, a)
                       THEN LinesMoved(ins[b], K - L) ELSE ins[b] ]_vars

\* in replace mode session 1 has deleted a range spanning a line and has
\* inserted two line breaks, and session 2, which has not started, is one
\* line below where it was constructed
C8_Witness ==
  /\ ins[1].mode = "replace"
  /\ ins[1].range0.end.line = ins[1].range0.start.line + 1
  /\ Breaks(ins[1].written) = 2
  /\ ins[2].pc = "new" /\ Live(2)
  /\ ins[2].anchor.line = ins[2].originalStartLine + 1
  /\ ins[2].originalRange.start.line = ins[2].range0.start.line + 1

(***************************************************************************)
(* Claims about HttpClient.generate                                        *)
(***************************************************************************)
LastCall == http.calls[Len(http.calls)]
FatalStatus(st) == ~OkStatus(st) /\ st \notin {429, 503}

(***************************************************************************)
(* C11: while the signal is clear, a response with a status that is not a  *)
(* success and not 429 or 503 is the response of the last fetch of the     *)
(* call: no wait and no fetch follows it, and the call rejects with the    *)
(* HTTP-status error of that status.                                       *)
(***************************************************************************)
C11_FatalStatusFailsAtOnce ==
  \A i \in 1..Len(http.calls) :
    (http.sig = "clear" /\ http.calls[i].kind = "status" /\ FatalStatus(http.calls[i].status))
      => /\ i = Len(http.calls)
         /\ http.pc \in {"body", "rejected"}
         /\ http.pc = "rejected" => http.result = HttpErr("status", http.calls[i].status)

(***************************************************************************)
(* C12: while the signal is clear, the call does not reject after a fetch  *)
(* that ran into the deadline of its attempt as long as the attempt number *)
(* is within maxRetries.                                                   *)
(***************************************************************************)
C12_TimeoutIsRetried ==
  ~ /\ http.pc = "rejected"
    /\ http.sig = "clear"
    /\ http.calls # << >> /\ LastCall.kind = "timeout"
    /\ http.attempt <= http.maxRetries

(***************************************************************************)
(* C13: when the signal has fired during the call and the call has         *)
(* settled, it has rejected with the abort error, and no fetch was issued  *)
(* after the signal fired.                                                 *)
(***************************************************************************)
C13_CancelRejectsCanceled ==
  (http.sig = "aborted" /\ HttpDone)
    => /\ http.pc = "rejected" /\ http.result = AbortErr
       /\ http.abortPc # "start" => Len(http.calls) = http.callsAtAbort

(***************************************************************************)
(* C14: a call issues at most maxRetries + 1 fetches. While the signal is  *)
(* clear, a 429 or 503 response to an attempt within maxRetries is         *)
(* followed by a wait: the hints of the response have been reported to     *)
(* onRateLimitHint and the wait is the response's retry-after when it has  *)
(* one and a value of exponentialJitter otherwise, after which the next    *)
(* fetch is issued. The call rejects with the error of a 429 or 503        *)
(* response only when that response answered fetch number maxRetries + 1,  *)
(* and then with the error of that last response.                          *)
(***************************************************************************)
C14_RetryAfterHintedDelay ==
  /\ Len(http.calls) <= http.maxRetries + 1
  /\ (http.pc = "sleeping" /\ http.res.status \in {429, 503})
       => /\ http.sleepFor = "status"
          /\ http.attempt <= http.maxRetries
          /\ (http.res.retryAfter # Absent \/ http.res.limit # Absent)
               => http.hints[1] = [retryAfterMs |-> ParseRetryAfterMs(http.res),
                                   limitPerMinuteHint |-> ParseLimitPerMinute(http.res)]
          /\ http.hints # << >>
          /\ http.hints[Len(http.hints)].retryAfterMs = ParseRetryAfterMs(http.res)
          /\ IF http.res.retryAfter # Absent
             THEN http.delay = http.res.retryAfter * 1000
             ELSE http.delay \in ExponentialJitter(http.attempt, http.baseBackoffMs,
                                                   http.maxBackoffMs)
  /\ (http.sig = "clear" /\ http.pc = "rejected" /\ http.calls # << >>
        /\ LastCall.kind = "status" /\ LastCall.status \in {429, 503})
       => /\ Len(http.calls) = http.maxRetries + 1
          /\ http.result = HttpErr("status", LastCall.status)
  /\ (http.sig = "clear" /\ http.calls # << >>
        /\ LastCall.kind = "status" /\ LastCall.status \in {429, 503}
        /\ Len(http.calls) <= http.maxRetries)
       => http.pc \in {"body", "sleeping"}

\* the second fetch of a call was answered 429 with a retry-after of one
\* second and a limit header, both were reported, and the call waits 1000 ms
C14_Witness ==
  /\ http.pc = "sleeping" /\ http.sleepFor = "status" /\ http.delay = 1000
  /\ Len(http.calls) = 2
  /\ http.calls[1] = HttpErr("status", 429) /\ http.calls[2] = HttpErr("status", 429)
  /\ http.hints = << [retryAfterMs |-> 1000, limitPerMinuteHint |-> 2],
                     [retryAfterMs |-> 1000, limitPerMinuteHint |-> Absent] >>

(***************************************************************************)
(* C15: while the reader waits for the next chunk, and when generate has   *)
(* returned, every onDelta call made so far has completed.                 *)
(***************************************************************************)
C15_ReaderAwaitsCallback ==
  http.pc \in {"streaming", "resolved"} => http.completed = http.delivered

IsPrefix(a, b) == Len(a) <= Len(b) /\ SubSeq(b, 1, Len(a)) = a
AppliedOps(s) == [i \in 1..Len(ins[s].applied) |-> ins[s].applied[i].op]

(***************************************************************************)
(* C16: the mutations of a session run in the order in which its caller    *)
(* asked for them: start first, then the deltas in the order onDelta       *)
(* passed them, and no delta after finish.                                 *)
(***************************************************************************)
C16_SessionOrder ==
  \A s \in Sessions :
    /\ IsPrefix(ins[s].applied, ins[s].asked)
    /\ \A i, j \in 1..Len(ins[s].applied) :
         /\ (AppliedOps(s)[i] = "start") = (i = 1)
         /\ (AppliedOps(s)[i] = "finish" /\ AppliedOps(s)[j] = "append") => j < i

\* session 1 has run start, two different deltas and finish with a
\* post-separator, and session 2 has run its start and inserted its
\* pre-separator
C16_Witness ==
  /\ ins[1].applied = << Op("start", << >>), Op("append", <<CharOf(1)>>),
                         Op("append", <<LF, CharOf(1)>>), Op("finish", << >>) >>
  /\ ins[1].postSeparator # << >>
  /\ ins[2].applied = << Op("start", << >>) >>
  /\ ins[2].inserted

(***************************************************************************)
(* More claims about TokenBucketPool                                       *)
(***************************************************************************)

(***************************************************************************)
(* C17: in every state 0 <= tokens <= capacity and capacity equals         *)
(* maxPerMinute.                                                           *)
(***************************************************************************)
C17_TokensWithinCapacity ==
  /\ 0 <= pool.tokens
  /\ pool.tokens <= pool.capacity * TokenUnit
  /\ pool.capacity = pool.maxPerMinute

\* no token was ever taken, a refill has run after half a minute and the
\* rate is 1: the refill of the full bucket, or the lowering of the rate
\* from 2, was cut off at the capacity of one token
C17_Witness ==
  /\ pool.nextId = 1
  /\ pool.lastRefillTs = MinuteMs \div 2
  /\ pool.capacity = 1 /\ pool.tokens = TokenUnit

(***************************************************************************)
(* C18 as stated: in every state, applyServerHint with a retryAfterMs that *)
(* is present leaves cooldownUntil = max(cooldownUntil before, now +       *)
(* retryAfterMs).                                                          *)
(***************************************************************************)
C18_CooldownIsMax ==
  \A ra \in RetryAfterInputs, lh \in LimitHintInputs :
    ra >= 0 => ApplyServerHintOf(pool, ra, lh, now).cooldownUntil
                 = Max(pool.cooldownUntil, now + ra)

(***************************************************************************)
(* C18: cooldownUntil never decreases, only a step of applyServerHint      *)
(* changes it, and in every state applyServerHint leaves it at             *)
(* max(cooldownUntil before, now + retryAfterMs) when retryAfterMs > 0 and *)
(* as it was when retryAfterMs is 0 or absent.                             *)
(***************************************************************************)
C18_CooldownOnlyGrows ==
  /\ [](\A ra \in RetryAfterInputs, lh \in LimitHintInputs :
          ApplyServerHintOf(pool, ra, lh, now).cooldownUntil
            = IF ra > 0 THEN Max(pool.cooldownUntil, now + ra) ELSE pool.cooldownUntil)
  /\ [][ /\ pool'.cooldownUntil >= pool.cooldownUntil
         /\ pool'.cooldownUntil # pool.cooldownUntil
              => \E ra \in RetryAfterInputs, lh \in LimitHintInputs :
                   ApplyServerHint(ra, lh) ]_vars

\* a cooldown of 300 ms set at half a minute is in effect: no hint of
\* 100 ms at that time has shortened it
C18_Witness ==
  /\ now = MinuteMs \div 2
  /\ pool.cooldownUntil = now + 300

\* the tasks that a step admits
AdmittedBy(p, q) == {t \in DOMAIN p.task : q.task[t].st = "running" /\ p.task[t].st # "running"}
\* the tokens of the bucket before the admissions of a step: refill and
\* updateLimits set them first
TokensBeforeAdmission ==
  IF pool'.lastRefillTs # pool.lastRefillTs
  THEN Min(pool.capacity * TokenUnit,
           pool.tokens + pool.maxPerMinute * (now - pool.lastRefillTs))
  ELSE Min(pool.tokens, pool'.capacity * TokenUnit)

(***************************************************************************)
(* C19: a step that admits k >= 1 tasks happens when no cooldown is in     *)
(* effect (now >= cooldownUntil), leaves running at most maxConcurrency    *)
(* with running increased by k or by k - 1 when the step is the settling   *)
(* of a task, and takes exactly k tokens from a bucket that held at least  *)
(* k.                                                                      *)
(***************************************************************************)
C19_AdmissionNeedsCapacity ==
  [][ LET k == Cardinality(AdmittedBy(pool, pool'))
      IN k >= 1 =>
           /\ now >= pool'.cooldownUntil
           /\ pool'.running <= pool'.maxConcurrency
           /\ pool'.running \in {pool.running + k, pool.running + k - 1}
           /\ TokensBeforeAdmission >= k * TokenUnit
           /\ pool'.tokens = TokensBeforeAdmission - k * TokenUnit ]_vars

\* a task waits in the queue during a cooldown although a slot and a token
\* are free
C19_Witness ==
  /\ Len(pool.queue) > 0
  /\ now < pool.cooldownUntil
  /\ pool.running < pool.maxConcurrency
  /\ pool.tokens >= TokenUnit

(***************************************************************************)
(* C20: schedule() with a signal that is already aborted rejects the       *)
(* future with Canceled and leaves queue, running and tokens as they were; *)
(* a signal that fires while its task is queued removes the task from the  *)
(* queue and rejects its future with Canceled, with running and tokens     *)
(* unchanged; and a task canceled in either way is never admitted.         *)
(***************************************************************************)
C20_CancelBeforeAdmission ==
  [][ /\ (pool'.nextId # pool.nextId /\ Schedule("aborted")) =>
           /\ pool'.task[pool.nextId].fut = "canceled"
           /\ pool'.task[pool.nextId].st = "refused"
           /\ pool'.queue = pool.queue
           /\ pool'.running = pool.running /\ pool'.tokens = pool.tokens
      /\ \A t \in TaskIds :
           (InQueue(pool, t) /\ pool'.task[t].sig # pool.task[t].sig /\ OnAbort(t)) =>
             /\ pool'.queue = RemoveAt(pool.queue, IndexOf(pool.queue, t))
             /\ pool'.task[t].fut = "canceled"
             /\ pool'.task[t].st = "dropped"
             /\ pool'.running = pool.running /\ pool'.tokens = pool.tokens
      /\ \A t \in TaskIds :
           pool.task[t].st \in {"refused", "dropped"} => pool'.task[t] = pool.task[t] ]_vars

\* a task was refused at schedule() and another, removed from the queue by
\* its signal, has a rejected future
C20_Witness ==
  \E t1, t2 \in TaskIds :
    /\ pool.task[t1].st = "refused" /\ pool.task[t1].fut = "canceled"
    /\ pool.task[t2] = [st |-> "dropped", fut |-> "canceled", ctl |-> TRUE, sig |-> "aborted"]

(***************************************************************************)
(* C21: when the action of a running task fails, the future of that task   *)
(* is rejected with the action's error, running goes down by one (and up   *)
(* by one for each task that the step admits), admission has been tried    *)
(* again (nothing more can start afterwards), and the future of no other   *)
(* task changes.                                                           *)
(***************************************************************************)
C21_FailureFreesSlot ==
  [][ \A t \in TaskIds :
        (pool.task[t].st = "running" /\ pool'.task[t].st # "running" /\ Settle(t, "failed")) =>
          /\ pool.task[t].fut = "pending"
          /\ pool'.task[t].fut = "failed"
          /\ pool'.running = pool.running - 1 + Cardinality(AdmittedBy(pool, pool'))
          /\ ~CanStart(pool', now)
          /\ \A u \in TaskIds \ {t} : pool'.task[u].fut = pool.task[u].fut ]_vars

\* the first task failed and the second, which waited for the only slot,
\* runs in its place with its future pending
C21_Witness ==
  /\ pool.task[1].st = "settled" /\ pool.task[1].fut = "failed"
  /\ pool.task[2].st = "running" /\ pool.task[2].fut = "pending"
  /\ pool.maxConcurrency = 1 /\ pool.running = 1
  /\ pool.tokens = 0 /\ pool.capacity = 2 /\ pool.lastRefillTs = 0

(***************************************************************************)
(* Claims about the document's queue                                       *)
(***************************************************************************)

(***************************************************************************)
(* C22: at most one task of the document's queue runs at a time, a task    *)
(* has started only when every task enqueued before it is done, whichever  *)
(* sessions enqueued them, and so the edits are made in the order of the   *)
(* tasks, the two edits of a start task next to each other.                *)
(***************************************************************************)
C22_OneTaskAtATime ==
  LET tasks == chain.tasks
      log == chain.log
  IN /\ Cardinality({i \in 1..Len(tasks) : tasks[i].st = "running"}) <= 1
     /\ \A i, j \in 1..Len(tasks) :
          (i < j /\ tasks[j].st # "waiting") => tasks[i].st = "done"
     /\ \A a, b \in 1..Len(log) :
          a < b => \/ log[a].task < log[b].task
                   \/ (log[a].task = log[b].task /\ log[a].edit < log[b].edit)

\* session 1's start task has made its two edits, then a task of session 2
\* has made its edit, and a third task waits while the second still runs
C22_Witness ==
  /\ Len(chain.tasks) = 3
  /\ chain.tasks[1].s = 1 /\ chain.tasks[1].op = "start" /\ chain.tasks[1].st = "done"
  /\ chain.tasks[2].s = 2 /\ chain.tasks[2].st = "running"
  /\ chain.tasks[3].s = 1 /\ chain.tasks[3].st = "waiting"
  /\ chain.log = << [task |-> 1, edit |-> 1], [task |-> 1, edit |-> 2],
                    [task |-> 2, edit |-> 1] >>

(***************************************************************************)
(* C24: when the edit of a restoreOriginal task fails, the future that     *)
(* restoreOriginal returned is rejected.                                   *)
(***************************************************************************)
C24_RestoreFailureSurfaces ==
  \A i \in 1..Len(chain.tasks) :
    (chain.tasks[i].op = "restore" /\ chain.tasks[i].failed)
      => chain.tasks[i].fut = "rejected"

(***************************************************************************)
(* Claims about exponentialJitter                                          *)
(***************************************************************************)
\* min(maxMs, baseMs * 2^(max(1, attempt) - 1)) for baseMs, maxMs >= 0
JitterBound(attempt, baseMs, maxMs) ==
  Min(maxMs, baseMs * Pow2Upto(Max(1, attempt) - 1, maxMs + 1))

(***************************************************************************)
(* C23: for every integer attempt and baseMs, maxMs >= 0 the delay d that  *)
(* exponentialJitter returns is an integer with 0 <= d <= min(maxMs,       *)
(* baseMs * 2^(max(1, attempt) - 1)), and an attempt <= 0 gives what       *)
(* attempt 1 gives.                                                        *)
(***************************************************************************)
C23_DelayWithinBound ==
  jitter.pc = "returned" =>
    /\ 0 <= jitter.d
    /\ jitter.d <= JitterBound(jitter.attempt, jitter.baseMs, jitter.maxMs)
    /\ jitter.attempt <= 0 =>
         ExponentialJitter(jitter.attempt, jitter.baseMs, jitter.maxMs)
           = ExponentialJitter(1, jitter.baseMs, jitter.maxMs)

(***************************************************************************)
(* C25: once a session is disposed, a task that one of its methods         *)
(* enqueued changes neither the document nor any session's anchor,         *)
(* initialAnchor, originalRange, inserted or totalInsertedLength, and no   *)
(* step changes the anchor, initialAnchor or originalRange of the disposed *)
(* session.                                                                *)
(***************************************************************************)
C25_DisposedIsInert ==
  [][ \A s \in Sessions :
        ins[s].disposed =>
          /\ ins'[s].anchor = ins[s].anchor
          /\ ins'[s].initialAnchor = ins[s].initialAnchor
          /\ ins'[s].originalRange = ins[s].originalRange
          /\ (editq # << >> /\ editq' = Tail(editq) /\ Head(editq).s = s) =>
               /\ doc'.text = doc.text
               /\ \A x \in Sessions :
                    /\ ins'[x].anchor = ins[x].anchor
                    /\ ins'[x].initialAnchor = ins[x].initialAnchor
                    /\ ins'[x].originalRange = ins[x].originalRange
                    /\ ins'[x].inserted = ins[x].inserted
                    /\ ins'[x].totalInsertedLength = ins[x].totalInsertedLength ]_vars

(***************************************************************************)
(* C26: on a pool whose limits are those of its construction, fewer than   *)
(* 60 seconds after the construction at most maxPerMinute tasks have been  *)
(* admitted.                                                               *)
(***************************************************************************)
C26_AtMostRatePerMinute ==
  now < MinuteMs => Cardinality(AdmittedTasks(pool)) <= pool.maxPerMinute

(***************************************************************************)
(* C27 as stated: in every state, right after updateLimits or              *)
(* applyServerHint has completed no task is queued while running <         *)
(* maxConcurrency, tokens >= 1 and now >= cooldownUntil.                   *)
(***************************************************************************)
C27_AdmissionAfterEveryCall ==
  /\ \A c \in ConcInputs, r \in RpmInputs : ~CanStart(UpdateLimitsOf(pool, c, r, now), now)
  /\ \A ra \in RetryAfterInputs, lh \in LimitHintInputs :
       ~CanStart(ApplyServerHintOf(pool, ra, lh, now), now)

(***************************************************************************)
(* C27: a task is queued while running < maxConcurrency, tokens >= 1 and   *)
(* now >= cooldownUntil only when a cooldown has run out since the last    *)
(* refill tick; only the passing of time brings such a state about; and a  *)
(* step that changes the pool and leaves a task queued like that is the    *)
(* firing of a task's signal or a schedule() with a signal already         *)
(* aborted: schedule() without that, a settle, a refill tick, updateLimits *)
(* and an applyServerHint that changes anything leave none.                *)
(***************************************************************************)
C27_WorkConserving ==
  /\ [](CanStart(pool, now) =>
          (pool.lastRefillTs < pool.cooldownUntil /\ pool.cooldownUntil <= now))
  /\ [](\A c \in ConcInputs, r \in RpmInputs : ~CanStart(UpdateLimitsOf(pool, c, r, now), now))
  /\ [][ /\ (CanStart(pool', now') /\ ~CanStart(pool, now)) => now' > now
         /\ (CanStart(pool', now') /\ pool' # pool) =>
              \/ \E t \in TaskIds : OnAbort(t)
              \/ Schedule("aborted") ]_vars

\* a refill tick has run at half a minute and a task stays queued with a
\* token in the bucket and no cooldown, because as many tasks run as allowed
C27_Witness ==
  /\ Len(pool.queue) > 0
  /\ pool.running = pool.maxConcurrency
  /\ pool.tokens >= TokenUnit
  /\ pool.cooldownUntil <= now
  /\ pool.lastRefillTs = now /\ now = MinuteMs \div 2

\* q holds task ids in the order of their schedule() calls
InScheduleOrder(q) == \A i, j \in 1..Len(q) : i < j => q[i] < q[j]

(***************************************************************************)
(* C28: tasks are admitted in the order of their schedule() calls: the     *)
(* queue always holds its tasks in the order they were scheduled, also     *)
(* after a canceled task was taken out of its middle, and no task is       *)
(* admitted while one scheduled before it is still queued.                 *)
(***************************************************************************)
C28_FifoAdmission ==
  /\ InScheduleOrder(pool.queue)
  /\ \A x \in BurstIds : InQueue(pool, x) => \A y \in AdmittedTasks(pool) : y < x

\* the third task was canceled and taken out of the queue, in which the
\* second and the fourth wait in that order behind the running first
C28_Witness ==
  /\ pool.task[3].st = "dropped"
  /\ pool.queue = <<2, 4>>
  /\ pool.task[1].st = "running"

C30_HintChangesRateOnly ==
  \A ra \in RetryAfterInputs, lh \in LimitHintInputs :
    LET q == ApplyServerHintOf(pool, ra, lh, now)
    IN /\ q.maxConcurrency = pool.maxConcurrency
       /\ q.maxPerMinute # pool.maxPerMinute =>
            /\ pool.dynamicProbe /\ lh > 0 /\ lh # pool.maxPerMinute
            /\ q.maxPerMinute = lh /\ q.capacity = lh
       /\ (pool.dynamicProbe /\ lh > 0 /\ lh # pool.maxPerMinute) => q.maxPerMinute = lh
       /\ ~pool.dynamicProbe =>
            /\ q.maxPerMinute = pool.maxPerMinute
            /\ q.capacity = pool.capacity
            /\ q.tokens = pool.tokens

\* before any refill two tasks run under a capacity of one: a hint of one
\* request per minute was taken over after the pool had admitted the first
C30_Witness ==
  /\ pool.dynamicProbe
  /\ now = 0
  /\ pool.running = 2
  /\ pool.capacity = 1 /\ pool.maxPerMinute = 1
  /\ pool.maxConcurrency = 2

(***************************************************************************)
(* C31: a start, appendDelta or finish task whose edit fails does not      *)
(* stall the queue of the document: its promise resolves, the anchor of    *)
(* its session is advanced only for the insertions that the document took, *)
(* and a task enqueued after it waits only while a task before it is not   *)
(* done.                                                                   *)
(***************************************************************************)
C31_FailedEditDoesNotStall ==
  LET tasks == chain.tasks
  IN \A i \in 1..Len(tasks) :
       tasks[i].op # "restore" =>
         /\ tasks[i].failed => (tasks[i].st = "done" /\ tasks[i].fut = "resolved")
         /\ tasks[i].anchored = tasks[i].inserted
         /\ (i > 1 /\ tasks[i - 1].st = "done") => (tasks[i].st # "waiting" \/ ENABLED QBegin(i))

\* the sessions constructed on the document and not disposed
LiveInserters == {i \in InserterIds : registry.sess[i].made /\ ~registry.sess[i].disposed}

(***************************************************************************)
(* C32: anchorTrackers has an entry for the document exactly when a        *)
(* session was constructed on it and not yet disposed, and the entry holds *)
(* exactly those sessions: no disposed session, also after dispose() was   *)
(* called on a session twice.                                              *)
(***************************************************************************)
C32_RegistryHoldsLiveSessions ==
  /\ registry.has <=> LiveInserters # {}
  /\ registry.set = LiveInserters

\* dispose() was called twice on a session while another session is live,
\* and a third was constructed and disposed
C32_Witness ==
  \E i, j, k \in InserterIds :
    /\ registry.sess[i].disposals = DisposeCalls
    /\ registry.sess[j].made /\ ~registry.sess[j].disposed
    /\ k # i /\ registry.sess[k].disposed
    /\ registry.has /\ registry.set = LiveInserters

(***************************************************************************)
(* C33: when generate has consumed an event stream and returned, the text  *)
(* it returned is the concatenation of the deltas it passed to onDelta, in *)
(* the order of the calls, and these are the deltas of the stream in       *)
(* stream order.                                                           *)
(***************************************************************************)
C33_TextIsDeliveredDeltas ==
  (http.pc = "resolved" /\ http.stream /\ http.res.sse) =>
    /\ http.text = http.seen
    /\ \A k \in 1..Len(http.seen) : http.seen[k] = k

(***************************************************************************)
(* C38: within one call of generate each delta of the answer is passed to  *)
(* onDelta at most once, also when a stream breaks and the request is      *)
(* tried again.                                                            *)
(***************************************************************************)
C38_DeltaDeliveredOnce ==
  \A j, k \in 1..Len(http.seen) : j < k => http.seen[j] # http.seen[k]

\* the line breaks of a text, a CR LF pair being one
LineBreaksIn(t) ==
  Cardinality({i \in 1..Len(t) :
                 t[i] = LF \/ (t[i] = CR /\ ~(i < Len(t) /\ t[i + 1] = LF))})
\* the length of what follows the last line break of a text
FinalSegmentLen(t) ==
  Len(t) - Max(0, CHOOSE i \in 0..Len(t) :
                    /\ i > 0 => t[i] \in {LF, CR}
                    /\ \A j \in (i + 1)..Len(t) : t[j] \notin {LF, CR})

(***************************************************************************)
(* C34: after updateAnchor(t) with the anchor at (l, c), the anchor is     *)
(* (l, c + length(t)) when t has no line break, and otherwise              *)
(* (l + the number of line breaks of t, the length of t's final segment),  *)
(* a CR LF pair being one line break.                                      *)
(***************************************************************************)
C34_AnchorAdvance ==
  editq = << >> =>
    LET t == ins[1].written
        a == ins[1].initialAnchor
    IN ins[1].anchor = IF LineBreaksIn(t) = 0
                       THEN Pos(a.line, a.character + Len(t))
                       ELSE Pos(a.line + LineBreaksIn(t), FinalSegmentLen(t))

\* the anchor was advanced over a text with a CR LF pair and a lone LF
C34_Witness ==
  /\ editq = << >>
  /\ ins[1].written = <<CR, LF, LF>>
  /\ ins[1].anchor = Pos(ins[1].initialAnchor.line + 2, 0)

\* a step in which a hint of the server sets a cooldown
CooldownSet == pool'.cooldownUntil > pool.cooldownUntil

(***************************************************************************)
(* C35: every task that schedule() has accepted eventually settles, as     *)
(* resolved, rejected or canceled, provided each started action            *)
(* terminates, the refill tick keeps firing and the hints of the server    *)
(* stop setting new cooldowns at some time.                                *)
(***************************************************************************)
C35_EveryTaskSettles ==
  (<>[][~CooldownSet]_vars) =>
    \A t \in TaskIds :
      (pool.task[t].st \in {"queued", "running"}) ~> (pool.task[t].fut # "pending")

\* a task is queued while nothing runs and the bucket holds less than one
\* token: only the refill over the time to come can admit it
C35_Witness ==
  \E t \in TaskIds :
    /\ pool.task[t].st = "queued"
    /\ pool.running = 0
    /\ pool.tokens < TokenUnit
    /\ now >= pool.cooldownUntil


\* the mutations of session s that wait in the document's queue, in order
PendingOps(s) ==
  LET q == SelectSeq(editq, LAMBDA task : task.s = s)
  IN [i \in 1..Len(q) |-> Op(q[i].op, q[i].text)]

\* how often character c occurs in text t
CountOf(t, c) == Cardinality({i \in 1..Len(t) : t[i] = c})

\* the document's queue runs an appendDelta task of session s
RunsAppendOf(s) ==
  /\ editq # << >> /\ Head(editq).op = "append" /\ Head(editq).s = s
  /\ editq' = Tail(editq)

C37_CanceledSelectionKeepsText ==
  \A s \in Sessions :
    (ins[s].mode = "replace" /\ ins[s].why \in {"queued", "failed"}) =>
      \A x \in Sessions \ {s} :
        CountOf(doc.text, OrigChar)
          >= CountOf(doc0, OrigChar) - CountOf(ins[x].origText, OrigChar)

\* the document's queue runs the restoreOriginal task of session a
RunsRestoreOf(a) ==
  /\ editq # << >> /\ Head(editq).op = "restore" /\ Head(editq).s = a
  /\ editq' = Tail(editq)

\* the anchor of session s is the position right after the text it inserted last
AnchorAfterOwnText(d, ss, s) ==
  d.mark[s] # -1 /\ ss[s].anchor = PositionAt(d.text, d.mark[s])

(***************************************************************************)
(* C39: when the restoreOriginal task of a session A runs, every other     *)
(* live session whose original position is after A's, whose anchor lies on *)
(* a later line than A's span and pointed right after its own inserted     *)
(* text, still has its anchor right after its own inserted text.           *)
(***************************************************************************)
C39_RestoreKeepsSiblingAnchors ==
  [][\A a \in Sessions :
       RunsRestoreOf(a) =>
         \A s \in Sessions \ {a} :
           ( /\ Live(s)
             /\ IsAfter(ins[s], ins[a])
             /\ ins[s].anchor.line > ins[a].anchor.line
             /\ ins[s].anchor.line > ins[a].initialAnchor.line
             /\ AnchorAfterOwnText(doc, ins, s) )
             => AnchorAfterOwnText(doc', ins', s)]_vars

\* the text of d with the characters from offset a + 1 to offset b replaced by t
Spliced(d, a, b, t) == SubSeq(d, 1, a) \o t \o SubSeq(d, b + 1, Len(d))

(***************************************************************************)
(* C40: in the generate command in Replace mode, when the restoreOriginal  *)
(* task of a selection with an empty answer runs, the document becomes the *)
(* document before it with the span the session inserted replaced by the   *)
(* selection's original text.                                              *)
(***************************************************************************)
C40_RestoreAtTruePosition ==
  [][\A s \in Sessions :
       (RunsRestoreOf(s) /\ ins[s].mode = "replace" /\ doc.mark[s] # -1) =>
         doc'.text = Spliced(doc.text, doc.mark[s] - Len(ins[s].written), doc.mark[s],
                             ins[s].origText)]_vars

====
